---- MODULE Spec2Model ----
(***************************************************************************)
(* Valdox: leaf validators (valdox.hpp) and the schema builder             *)
(* (ValidatorBuilder<T>) that composes them.                               *)
(*                                                                         *)
(* Text is modelled as a sequence of text units (one-character strings,    *)
(* or a literal fragment of a message kept as one unit), so that           *)
(* concatenation, prefixes and paths are computed, not assumed.            *)
(***************************************************************************)
EXTENDS Integers, Sequences, FiniteSets, TLC

VARIABLES
    validator,    \* the leaf validator under test (its const members)
    errors,       \* the caller's std::vector<std::string> errors
    prevErrors,   \* errors as it was when the last call started
    op,           \* the last call made
    arg,          \* the value passed to the last call
    argName,      \* the varName / rootLabel passed to the last call
    ret,          \* the boolean the last call returned
    out,          \* the value the last clamp / crop returned
    bindings,     \* the builder's ordered list of field bindings
    instance,     \* the record passed to the last builder validate
    stopOnError,  \* the stopOnError flag of the last builder validate
    evaluated,    \* the leaf checks the last builder validate made, in order
    matchFn,      \* the function the static stringRegexMatchFn holds
    callerMatches, \* the caller's std::vector<std::string> matches
    prevMatches,  \* callerMatches as it was when the last call started
    callers       \* the threads that share the validator, each in its own call

vars == <<validator, errors, prevErrors, op, arg, argName, ret, out,
          bindings, instance, stopOnError, evaluated, matchFn, callerMatches,
          prevMatches, callers>>

(***************************************************************************)
(* Bounds of the model.                                                    *)
(***************************************************************************)
MaxNum == 2
MaxErrors == 2
MaxStrLen == 1
MaxBindings == 3
MaxVec == 2
MaxMatches == 2

(***************************************************************************)
(* Numeric values.  T is any arithmetic type accepted by is_numeric, so a  *)
(* floating-point T also has the unordered value NaN: every comparison     *)
(* with it is false and arithmetic on it yields NaN.  NaN is encoded by a  *)
(* number outside the range of the modelled values.                        *)
(***************************************************************************)
NaN == 1000

NumBounds == 0..MaxNum
IntVals == (-1)..(MaxNum + 1)
NumVals == IntVals \cup {NaN}

Lt(a, b) == a # NaN /\ b # NaN /\ a < b
Gt(a, b) == a # NaN /\ b # NaN /\ a > b
Le(a, b) == a # NaN /\ b # NaN /\ a <= b
Ge(a, b) == a # NaN /\ b # NaN /\ a >= b
Plus(a, k) == IF a = NaN THEN NaN ELSE a + k

\* operator<< of a number into the message stream
ShowNum(n) == IF n = NaN THEN "nan" ELSE ToString(n)

(***************************************************************************)
(* Text helpers.                                                           *)
(***************************************************************************)
\* std::string::substr(pos, count), pos <= size
Substr(s, pos, count) ==
    SubSeq(s, pos + 1, IF Len(s) < pos + count THEN Len(s) ELSE pos + count)

\* std::string::substr(pos), pos <= size
SubstrFrom(s, pos) == SubSeq(s, pos + 1, Len(s))

SeqsUpTo(S, n) == UNION {[1..k -> S] : k \in 0..n}

StrVals == SeqsUpTo({"a", "b"}, MaxStrLen)

\* the common head of every message
MsgHead(varName) == <<"ValidationError: '">> \o varName \o <<"' received ">>
MsgHeadStr(varName, value) == MsgHead(varName) \o <<"\"">> \o value

PushBack(errs, msg) == Append(errs, msg)

(***************************************************************************)
(* Number validators.  A validator is a record of its const members.       *)
(***************************************************************************)
NumberBetweenValidator(min, max, includeMin, includeMax) ==
    [kind |-> "NumberBetween", min |-> min, max |-> max,
     includeMin |-> includeMin, includeMax |-> includeMax]

\* a validate that reads each include flag for the other bound
NumberBetweenValidator_validate_flagsSwapped(vd, value) ==
    /\ (IF vd.includeMax THEN Ge(value, vd.min) ELSE Gt(value, vd.min))
    /\ (IF vd.includeMin THEN Le(value, vd.max) ELSE Lt(value, vd.max))

NumberBetweenValidator_validate(vd, value) ==
    /\ (IF vd.includeMin THEN Ge(value, vd.min) ELSE Gt(value, vd.min))
    /\ (IF vd.includeMax THEN Le(value, vd.max) ELSE Lt(value, vd.max))

\* a message that names the value where the field path belongs
NumberBetweenValidator_message_noVarName(vd, value, varName) ==
    MsgHead(<<ShowNum(value)>>) \o
    <<ShowNum(value), ", expected ", ShowNum(vd.min),
      (IF vd.includeMin THEN " <= " ELSE " < "), "{value}",
      (IF vd.includeMax THEN " <= " ELSE " < "), ShowNum(vd.max), ".">>

\* a message whose constraint shows the value in place of {value}
NumberBetweenValidator_message_valueInConstraint(vd, value, varName) ==
    MsgHead(varName) \o
    <<ShowNum(value), ", expected ", ShowNum(vd.min),
      (IF vd.includeMin THEN " <= " ELSE " < "), ShowNum(value),
      (IF vd.includeMax THEN " <= " ELSE " < "), ShowNum(vd.max), ".">>

NumberBetweenValidator_message(vd, value, varName) ==
    MsgHead(varName) \o
    <<ShowNum(value), ", expected ", ShowNum(vd.min),
      (IF vd.includeMin THEN " <= " ELSE " < "), "{value}",
      (IF vd.includeMax THEN " <= " ELSE " < "), ShowNum(vd.max), ".">>

\* a validate that overwrites the caller's list instead of appending to it
NumberBetweenValidator_validateErr_overwrites(vd, value, varName, errs) ==
    IF NumberBetweenValidator_validate(vd, value)
    THEN [ret |-> TRUE, errors |-> errs]
    ELSE [ret |-> FALSE,
          errors |-> <<NumberBetweenValidator_message(vd, value, varName)>>]

\* a validate that puts its message in front of the caller's earlier entries
NumberBetweenValidator_validateErr_prepends(vd, value, varName, errs) ==
    IF NumberBetweenValidator_validate(vd, value)
    THEN [ret |-> TRUE, errors |-> errs]
    ELSE [ret |-> FALSE,
          errors |-> <<NumberBetweenValidator_message(vd, value, varName)>> \o errs]

\* a validate that reports the failure twice
NumberBetweenValidator_validateErr_appendsTwice(vd, value, varName, errs) ==
    IF NumberBetweenValidator_validate(vd, value)
    THEN [ret |-> TRUE, errors |-> errs]
    ELSE [ret |-> FALSE,
          errors |-> PushBack(PushBack(errs,
                         NumberBetweenValidator_message(vd, value, varName)),
                         NumberBetweenValidator_message(vd, value, varName))]

\* a validate that appends the message and then falls through to return true
NumberBetweenValidator_validateErr_returnsTrue(vd, value, varName, errs) ==
    IF NumberBetweenValidator_validate(vd, value)
    THEN [ret |-> TRUE, errors |-> errs]
    ELSE [ret |-> TRUE,
          errors |-> PushBack(errs, NumberBetweenValidator_message(vd, value, varName))]

\* a validate that returns false without a message
NumberBetweenValidator_validateErr_silent(vd, value, varName, errs) ==
    [ret |-> NumberBetweenValidator_validate(vd, value), errors |-> errs]

\* a validate that remembers what it has reported and passes a repeat
NumberBetweenValidator_validateErr_skipsRepeats(vd, value, varName, errs) ==
    IF NumberBetweenValidator_validate(vd, value)
       \/ \E i \in 1..Len(errs) : errs[i] = NumberBetweenValidator_message(vd, value, varName)
    THEN [ret |-> TRUE, errors |-> errs]
    ELSE [ret |-> FALSE,
          errors |-> PushBack(errs, NumberBetweenValidator_message(vd, value, varName))]

NumberBetweenValidator_validateErr(vd, value, varName, errs) ==
    IF NumberBetweenValidator_validate(vd, value)
    THEN [ret |-> TRUE, errors |-> errs]
    ELSE [ret |-> FALSE,
          errors |-> PushBack(errs, NumberBetweenValidator_message(vd, value, varName))]

\* a clamp whose include flags are read the wrong way round
NumberBetweenValidator_clamp_flagsInverted(vd, value) ==
    IF Lt(value, vd.min)
    THEN (IF vd.includeMin THEN Plus(vd.min, 1) ELSE vd.min)
    ELSE IF Gt(value, vd.max)
         THEN (IF vd.includeMax THEN Plus(vd.max, -1) ELSE vd.max)
         ELSE value

\* a clamp that returns the far bound instead of the near one
NumberBetweenValidator_clamp_farBound(vd, value) ==
    IF Lt(value, vd.min)
    THEN (IF vd.includeMax THEN vd.max ELSE Plus(vd.max, -1))
    ELSE IF Gt(value, vd.max)
         THEN (IF vd.includeMin THEN vd.min ELSE Plus(vd.min, 1))
         ELSE value

NumberBetweenValidator_clamp(vd, value) ==
    IF Lt(value, vd.min)
    THEN (IF vd.includeMin THEN vd.min ELSE Plus(vd.min, 1))
    ELSE IF Gt(value, vd.max)
         THEN (IF vd.includeMax THEN vd.max ELSE Plus(vd.max, -1))
         ELSE value

NumberGreaterThanValidator(min) == [kind |-> "NumberGreaterThan", min |-> min]

NumberGreaterThanValidator_validate(vd, value) == Gt(value, vd.min)

NumberGreaterThanValidator_validateErr(vd, value, varName, errs) ==
    IF NumberGreaterThanValidator_validate(vd, value)
    THEN [ret |-> TRUE, errors |-> errs]
    ELSE [ret |-> FALSE,
          errors |-> PushBack(errs, MsgHead(varName) \o
              <<ShowNum(value), ", expected value greater than ", ShowNum(vd.min), ".">>)]

NumberGreaterThanValidator_clamp(vd, value) ==
    IF Lt(value, vd.min) THEN Plus(vd.min, 1) ELSE value

NumberGreaterOrEqualValidator(min) == [kind |-> "NumberGreaterOrEqual", min |-> min]

NumberGreaterOrEqualValidator_validate(vd, value) == Ge(value, vd.min)

NumberGreaterOrEqualValidator_validateErr(vd, value, varName, errs) ==
    IF NumberGreaterOrEqualValidator_validate(vd, value)
    THEN [ret |-> TRUE, errors |-> errs]
    ELSE [ret |-> FALSE,
          errors |-> PushBack(errs, MsgHead(varName) \o
              <<ShowNum(value), ", expected value >= ", ShowNum(vd.min), ".">>)]

\* a clamp that steps past the bound as the strict validator does
NumberGreaterOrEqualValidator_clamp_pastBound(vd, value) ==
    IF Lt(value, vd.min) THEN Plus(vd.min, 1) ELSE value

NumberGreaterOrEqualValidator_clamp(vd, value) ==
    IF Lt(value, vd.min) THEN vd.min ELSE value

NumberLessThanValidator(max) == [kind |-> "NumberLessThan", max |-> max]

NumberLessThanValidator_validate(vd, value) == Lt(value, vd.max)

NumberLessThanValidator_validateErr(vd, value, varName, errs) ==
    IF NumberLessThanValidator_validate(vd, value)
    THEN [ret |-> TRUE, errors |-> errs]
    ELSE [ret |-> FALSE,
          errors |-> PushBack(errs, MsgHead(varName) \o
              <<ShowNum(value), ", expected value less than ", ShowNum(vd.max), ".">>)]

NumberLessThanValidator_clamp(vd, value) ==
    IF Gt(value, vd.max) THEN Plus(vd.max, -1) ELSE value

NumberLessOrEqualValidator(max) == [kind |-> "NumberLessOrEqual", max |-> max]

NumberLessOrEqualValidator_validate(vd, value) == Le(value, vd.max)

NumberLessOrEqualValidator_validateErr(vd, value, varName, errs) ==
    IF NumberLessOrEqualValidator_validate(vd, value)
    THEN [ret |-> TRUE, errors |-> errs]
    ELSE [ret |-> FALSE,
          errors |-> PushBack(errs, MsgHead(varName) \o
              <<ShowNum(value), ", expected value <= ", ShowNum(vd.max), ".">>)]

NumberLessOrEqualValidator_clamp(vd, value) ==
    IF Gt(value, vd.max) THEN vd.max ELSE value

\* operator% of C++ on integers: the quotient is truncated toward zero, so
\* the remainder has the sign of the dividend
CRem(a, b) ==
    LET m == IF b < 0 THEN -b ELSE b
    IN  IF a >= 0 THEN a % m ELSE -((-a) % m)

\* T of a multipleOf validator is a signed integer type: the values from
\* std::numeric_limits<T>::min() to std::numeric_limits<T>::max(), one more
\* below zero than above
TMin == -(MaxNum + 2)
TMax == MaxNum + 1

NumberMultipleOfValidator(divisor) == [kind |-> "NumberMultipleOf", divisor |-> divisor]

\* value % divisor has no defined result when the quotient value / divisor
\* is not a value of T
RemainderUndefined(vd, value) ==
    /\ vd.kind = "NumberMultipleOf"
    /\ value = TMin
    /\ vd.divisor = -1

NumberMultipleOfValidator_validate(vd, value) == CRem(value, vd.divisor) = 0

NumberMultipleOfValidator_validateErr(vd, value, varName, errs) ==
    IF NumberMultipleOfValidator_validate(vd, value)
    THEN [ret |-> TRUE, errors |-> errs]
    ELSE [ret |-> FALSE,
          errors |-> PushBack(errs, MsgHead(varName) \o
              <<ShowNum(value), ", expected multiple of ", ShowNum(vd.divisor), ".">>)]

\* operator== of T: NaN equals nothing, itself included
EqNum(a, b) == a # NaN /\ b # NaN /\ a = b

NumberLiteralValidator(literals) == [kind |-> "NumberLiteral", literals |-> literals]

\* a scan that stops after the first literal
NumberLiteralValidator_validate_firstOnly(vd, value) ==
    Len(vd.literals) > 0 /\ EqNum(value, vd.literals[1])

NumberLiteralValidator_validate(vd, value) ==
    \E i \in 1..Len(vd.literals) : EqNum(value, vd.literals[i])

\* the literals joined by ", "
RECURSIVE JoinNums(_, _)
JoinNums(lits, i) ==
    IF i > Len(lits) THEN <<>>
    ELSE <<ShowNum(lits[i])>> \o (IF i < Len(lits) THEN <<", ">> ELSE <<>>)
         \o JoinNums(lits, i + 1)

NumberLiteralValidator_validateErr(vd, value, varName, errs) ==
    IF NumberLiteralValidator_validate(vd, value)
    THEN [ret |-> TRUE, errors |-> errs]
    ELSE [ret |-> FALSE,
          errors |-> PushBack(errs, MsgHead(varName) \o
              <<ShowNum(value), ", expected one of [">> \o JoinNums(vd.literals, 1)
              \o <<"].">>)]

(***************************************************************************)
(* String validators.                                                      *)
(***************************************************************************)
StringLengthBetweenValidator(min, max) ==
    [kind |-> "StringLengthBetween", min |-> min, max |-> max]

StringLengthBetweenValidator_validate(vd, value) ==
    Len(value) >= vd.min /\ Len(value) <= vd.max

StringLengthBetweenValidator_validateErr(vd, value, varName, errs) ==
    IF StringLengthBetweenValidator_validate(vd, value)
    THEN [ret |-> TRUE, errors |-> errs]
    ELSE [ret |-> FALSE,
          errors |-> PushBack(errs, MsgHeadStr(varName, value) \o
              <<"\", expected length between ", ToString(vd.min), " and ",
                ToString(vd.max), ".">>)]

StringLengthMinValidator(min) == [kind |-> "StringLengthMin", min |-> min]

StringLengthMinValidator_validate(vd, value) == Len(value) >= vd.min

StringLengthMinValidator_validateErr(vd, value, varName, errs) ==
    IF StringLengthMinValidator_validate(vd, value)
    THEN [ret |-> TRUE, errors |-> errs]
    ELSE [ret |-> FALSE,
          errors |-> PushBack(errs, MsgHeadStr(varName, value) \o
              <<"\", expected length >= ", ToString(vd.min), ".">>)]

StringLengthMaxValidator(max) == [kind |-> "StringLengthMax", max |-> max]

StringLengthMaxValidator_validate(vd, value) == Len(value) <= vd.max

StringLengthMaxValidator_validateErr(vd, value, varName, errs) ==
    IF StringLengthMaxValidator_validate(vd, value)
    THEN [ret |-> TRUE, errors |-> errs]
    ELSE [ret |-> FALSE,
          errors |-> PushBack(errs, MsgHeadStr(varName, value) \o
              <<"\", expected length <= ", ToString(vd.max), ".">>)]

\* a crop that keeps one unit too many
StringLengthMaxValidator_crop_oneMore(vd, value) == Substr(value, 0, vd.max + 1)

StringLengthMaxValidator_crop(vd, value) == Substr(value, 0, vd.max)

StringLiteralValidator(literals) == [kind |-> "StringLiteral", literals |-> literals]

StringLiteralValidator_validate(vd, value) ==
    \E i \in 1..Len(vd.literals) : value = vd.literals[i]

\* the literals, each in double quotes, joined by ", "
RECURSIVE JoinStrs(_, _)
JoinStrs(lits, i) ==
    IF i > Len(lits) THEN <<>>
    ELSE <<"\"">> \o lits[i] \o <<"\"">>
         \o (IF i < Len(lits) THEN <<", ">> ELSE <<>>)
         \o JoinStrs(lits, i + 1)

StringLiteralValidator_validateErr(vd, value, varName, errs) ==
    IF StringLiteralValidator_validate(vd, value)
    THEN [ret |-> TRUE, errors |-> errs]
    ELSE [ret |-> FALSE,
          errors |-> PushBack(errs, MsgHeadStr(varName, value) \o
              <<"\", expected one of [">> \o JoinStrs(vd.literals, 1) \o <<"].">>)]

StringStartsWithValidator(prefix) == [kind |-> "StringStartsWith", prefix |-> prefix]

StringStartsWithValidator_validate(vd, value) ==
    /\ Len(value) >= Len(vd.prefix)
    /\ Substr(value, 0, Len(vd.prefix)) = vd.prefix

StringStartsWithValidator_validateErr(vd, value, varName, errs) ==
    IF StringStartsWithValidator_validate(vd, value)
    THEN [ret |-> TRUE, errors |-> errs]
    ELSE [ret |-> FALSE,
          errors |-> PushBack(errs, MsgHeadStr(varName, value) \o
              <<"\", expected to start with \"">> \o vd.prefix \o <<"\".">>)]

StringEndsWithValidator(suffix) == [kind |-> "StringEndsWith", suffix |-> suffix]

StringEndsWithValidator_validate(vd, value) ==
    /\ Len(value) >= Len(vd.suffix)
    /\ SubstrFrom(value, Len(value) - Len(vd.suffix)) = vd.suffix

StringEndsWithValidator_validateErr(vd, value, varName, errs) ==
    IF StringEndsWithValidator_validate(vd, value)
    THEN [ret |-> TRUE, errors |-> errs]
    ELSE [ret |-> FALSE,
          errors |-> PushBack(errs, MsgHeadStr(varName, value) \o
              <<"\", expected to end with \"">> \o vd.suffix \o <<"\".">>)]

\* std::string::npos, and std::string::find(sub): the first position (from
\* 0) at which sub occurs in s, npos when there is none
npos == -1
Find(s, sub) ==
    LET hits == {p \in 0..(Len(s) - Len(sub)) : Substr(s, p, Len(sub)) = sub}
    IN  IF hits = {} THEN npos
        ELSE CHOOSE p \in hits : \A q \in hits : p <= q

StringIncludesValidator(substring) == [kind |-> "StringIncludes", substring |-> substring]

\* a check that looks for the substring at the front only
StringIncludesValidator_validate_atFront(vd, value) == Find(value, vd.substring) = 0

StringIncludesValidator_validate(vd, value) == Find(value, vd.substring) # npos

StringIncludesValidator_validateErr(vd, value, varName, errs) ==
    IF StringIncludesValidator_validate(vd, value)
    THEN [ret |-> TRUE, errors |-> errs]
    ELSE [ret |-> FALSE,
          errors |-> PushBack(errs, MsgHeadStr(varName, value) \o
              <<"\", expected to include \"">> \o vd.substring \o <<"\".">>)]

(***************************************************************************)
(* std::regex, ECMAScript grammar: a pattern is parsed into a tree and     *)
(* matched by backtracking.  A quantifier may follow a quantified atom, as *)
(* libstdc++ parses it.                                                    *)
(***************************************************************************)
\* a string literal as the sequence of its characters
Chars(str) == [i \in 1..Len(str) |-> SubSeq(str, i, i)]

\* the code of a character: the printable ASCII characters from the space
\* (32) to the underscore (95) and from a (97) to the tilde (126)
Ord ==
    LET Codes(low, high) ==
            [c \in {low[i] : i \in 1..Len(low)} \cup {high[i] : i \in 1..Len(high)} |->
                IF \E i \in 1..Len(low) : low[i] = c
                THEN 31 + (CHOOSE i \in 1..Len(low) : low[i] = c)
                ELSE 96 + (CHOOSE i \in 1..Len(high) : high[i] = c)]
    IN  Codes(Chars(" !\"#$%&'()*+,-./0123456789:;<=>?@ABCDEFGHIJKLMNOPQRSTUVWXYZ[\\]^_"),
              Chars("abcdefghijklmnopqrstuvwxyz{|}~"))
OrdOf(c) ==
    LET In(codes) == IF c \in DOMAIN codes THEN codes[c]
                     ELSE IF c = "\t" THEN 9 ELSE IF c = "\n" THEN 10
                     ELSE IF c = "\r" THEN 13 ELSE 0
    IN  In(Ord)

\* the character classes \d, \s and \w
CharClass(e, c) ==
    LET Has(o) == CASE e = "d" -> o >= 48 /\ o <= 57
                    [] e = "s" -> c \in {" ", "\t", "\n", "\r", "\f"}
                    [] e = "w" -> \/ (o >= 48 /\ o <= 57)
                                  \/ (o >= 65 /\ o <= 90)
                                  \/ (o >= 97 /\ o <= 122)
                                  \/ c = "_"
    IN  Has(OrdOf(c))

\* One step of the recursive-descent parser of std::regex(re), reading re
\* from pos on with ng capturing groups opened so far.  what names the
\* construct to read; acc is the atom being quantified ("quantifiers"), the
\* bracket members read so far ("members") or the digits read so far ("count",
\* -1 when none).  The result is [ok, node, pos, ng]: the node read and the
\* position after it.  Nodes: empty, char c, any, class (neg, items),
\* bol, eol, group (idx, 0 when not capturing), alt, cat, and rep: body
\* repeated min to max times, without an upper limit when ~bounded.  A
\* pattern that libstdc++ rejects is not ok; like libstdc++, a quantifier may
\* follow a quantifier.
RECURSIVE Parse(_, _, _, _, _)
Parse(what, re, pos, ng, acc) ==
    LET at(p) == IF p >= 1 /\ p <= Len(re) THEN re[p] ELSE "<end>"
        Parsed(node, p, n) == [ok |-> TRUE, node |-> node, pos |-> p, ng |-> n]
        Bad == [ok |-> FALSE, node |-> [t |-> "empty"], pos |-> 0, ng |-> 0]
        \* \d \D \s \S \w \W
        Esc(e) == [t |-> "esc", neg |-> e \in {"D", "S", "W"},
                   e |-> CASE e \in {"d", "D"} -> "d"
                           [] e \in {"s", "S"} -> "s"
                           [] e \in {"w", "W"} -> "w"]
        \* the atom acc with a quantifier read up to p; a ? after it makes it
        \* non-greedy
        Rep(min, max, bounded, p) ==
            Parse("quantifiers", re, IF at(p) = "?" THEN p + 1 ELSE p, ng,
                  [t |-> "rep", min |-> min, max |-> max, bounded |-> bounded,
                   greedy |-> at(p) # "?", body |-> acc])
        Alt(a, rest) ==
            IF ~a.ok THEN Bad
            ELSE IF at(a.pos) # "|" THEN a
            ELSE IF ~rest.ok THEN Bad
            ELSE Parsed([t |-> "alt", l |-> a.node, r |-> rest.node], rest.pos, rest.ng)
        Cat(term, rest) ==
            IF ~term.ok \/ ~rest.ok THEN Bad
            ELSE IF rest.node.t = "empty" THEN Parsed(term.node, rest.pos, rest.ng)
            ELSE Parsed([t |-> "cat", l |-> term.node, r |-> rest.node], rest.pos, rest.ng)
        Quantified(atom) ==
            IF ~atom.ok THEN Bad
            ELSE Parse("quantifiers", re, atom.pos, atom.ng, atom.node)
        \* {min}, {min,} and {min,max}
        Braces(min, max) ==
            IF min.node < 0 THEN Bad
            ELSE IF at(min.pos) = "}" THEN Rep(min.node, min.node, TRUE, min.pos + 1)
            ELSE IF at(min.pos) # "," THEN Bad
            ELSE IF at(min.pos + 1) = "}" THEN Rep(min.node, 0, FALSE, min.pos + 2)
            ELSE IF max.node < min.node \/ at(max.pos) # "}" THEN Bad
            ELSE Rep(min.node, max.node, TRUE, max.pos + 1)
        BracesFrom(min) == Braces(min, Parse("count", re, min.pos + 1, ng, -1))
        Group(idx, d) ==
            IF ~d.ok \/ at(d.pos) # ")" THEN Bad
            ELSE Parsed([t |-> "group", idx |-> idx, body |-> d.node], d.pos + 1, d.ng)
        Escape(e) ==
            IF e = "<end>" THEN Bad
            ELSE IF e \in {"d", "D", "s", "S", "w", "W"}
            THEN Parsed([t |-> "class", neg |-> FALSE, items |-> <<Esc(e)>>], pos + 2, ng)
            ELSE IF e \in {"n", "t", "r"}
            THEN Parsed([t |-> "char", c |-> CASE e = "n" -> "\n"
                                               [] e = "t" -> "\t"
                                               [] e = "r" -> "\r"], pos + 2, ng)
            ELSE IF CharClass("w", e) THEN Bad
            ELSE Parsed([t |-> "char", c |-> e], pos + 2, ng)
        With(item, p) ==
            Parse("members", re, p, ng, [acc EXCEPT !.items = Append(acc.items, item)])
        \* a bracket member that starts with lo, an escape when esc, and
        \* reaches up to next
        Member(esc, lo, next) ==
            LET Range(hiEsc, hi, after) ==
                    IF hi = "<end>" \/ OrdOf(hi) < OrdOf(lo)
                       \/ (hiEsc /\ hi \in {"d", "D", "s", "S", "w", "W"})
                    THEN Bad
                    ELSE With([t |-> "range", lo |-> lo, hi |-> hi], after)
            IN  IF lo = "<end>" THEN Bad
                ELSE IF esc /\ lo \in {"d", "D", "s", "S", "w", "W"} THEN With(Esc(lo), next)
                ELSE IF at(next) # "-" \/ at(next + 1) \in {"]", "<end>"}
                THEN With([t |-> "range", lo |-> lo, hi |-> lo], next)
                ELSE IF at(next + 1) = "\\" THEN Range(TRUE, at(next + 2), next + 3)
                ELSE Range(FALSE, at(next + 1), next + 2)
    IN  CASE what = "disjunction" ->
                 LET After(a) == Alt(a, Parse("disjunction", re, a.pos + 1, a.ng, acc))
                 IN  After(Parse("alternative", re, pos, ng, acc))
          [] what = "alternative" ->
                 LET After(term) == Cat(term, Parse("alternative", re, term.pos, term.ng, acc))
                 IN  IF at(pos) \in {"|", ")", "<end>"}
                     THEN Parsed([t |-> "empty"], pos, ng)
                     ELSE After(Parse("term", re, pos, ng, acc))
          [] what = "term" ->
                 IF at(pos) = "^" THEN Parsed([t |-> "bol"], pos + 1, ng)
                 ELSE IF at(pos) = "$" THEN Parsed([t |-> "eol"], pos + 1, ng)
                 ELSE Quantified(Parse("atom", re, pos, ng, acc))
          [] what = "quantifiers" ->
                 CASE at(pos) = "*" -> Rep(0, 0, FALSE, pos + 1)
                   [] at(pos) = "+" -> Rep(1, 0, FALSE, pos + 1)
                   [] at(pos) = "?" -> Rep(0, 1, TRUE, pos + 1)
                   [] at(pos) = "{" -> BracesFrom(Parse("count", re, pos + 1, ng, -1))
                   [] OTHER -> Parsed(acc, pos, ng)
          [] what = "count" ->
                 IF CharClass("d", at(pos))
                 THEN Parse("count", re, pos + 1, ng,
                            (IF acc < 0 THEN 0 ELSE acc * 10) + OrdOf(re[pos]) - 48)
                 ELSE Parsed(acc, pos, ng)
          [] what = "atom" ->
                 CASE at(pos) = "." -> Parsed([t |-> "any"], pos + 1, ng)
                   [] at(pos) = "\\" -> Escape(at(pos + 1))
                   [] at(pos) = "[" ->
                          IF at(pos + 1) = "^"
                          THEN Parse("members", re, pos + 2, ng, [neg |-> TRUE, items |-> <<>>])
                          ELSE Parse("members", re, pos + 1, ng, [neg |-> FALSE, items |-> <<>>])
                   [] at(pos) = "(" ->
                          IF at(pos + 1) # "?"
                          THEN Group(ng + 1, Parse("disjunction", re, pos + 1, ng + 1, acc))
                          ELSE IF at(pos + 2) = ":"
                          THEN Group(0, Parse("disjunction", re, pos + 3, ng, acc))
                          ELSE Bad
                   [] at(pos) \in {"*", "+", "?", "{", ")", "|", "<end>"} -> Bad
                   [] OTHER -> Parsed([t |-> "char", c |-> at(pos)], pos + 1, ng)
          [] what = "members" ->
                 IF at(pos) = "<end>" THEN Bad
                 ELSE IF at(pos) = "]"
                 THEN Parsed([t |-> "class", neg |-> acc.neg, items |-> acc.items],
                             pos + 1, ng)
                 ELSE IF at(pos) = "\\" THEN Member(TRUE, at(pos + 1), pos + 2)
                 ELSE Member(FALSE, at(pos), pos + 1)

\* std::regex(pattern): the parsed pattern, or not ok where the constructor
\* throws std::regex_error
Regex(pattern) ==
    LET Whole(d) == IF d.ok /\ d.pos = Len(pattern) + 1 THEN d
                    ELSE [ok |-> FALSE, node |-> [t |-> "empty"], pos |-> 0, ng |-> 0]
    IN  Whole(Parse("disjunction", pattern, 1, 0, <<>>))

\* every way node matches s from each of the states (a position and the
\* sub-matches so far), in the order a backtracking matcher tries them
RECURSIVE MatchAll(_, _, _)
MatchAll(node, s, states) ==
    LET From(sub, st) == MatchAll(sub, s, <<st>>)
        Step(st, ok) == IF ok THEN <<[st EXCEPT !.pos = st.pos + 1]>> ELSE <<>>
        InClass(c) ==
            LET InItem(item, o) ==
                    IF item.t = "range" THEN o >= OrdOf(item.lo) /\ o <= OrdOf(item.hi)
                    ELSE CharClass(item.e, c) # item.neg
                Member(o) == \E i \in 1..Len(node.items) : InItem(node.items[i], o)
            IN  Member(OrdOf(c)) # node.neg
        Captured(st, ends) ==
            IF node.idx = 0 THEN ends
            ELSE [k \in 1..Len(ends) |->
                     [ends[k] EXCEPT !.caps[node.idx] = SubSeq(s, st.pos, ends[k].pos - 1)]]
        Less(n) == IF n = 0 THEN 0 ELSE n - 1
        \* one more iteration of the body, then the rest; an iteration that
        \* matched nothing is not repeated once the minimum is reached
        Repeat(st, skip) ==
            LET Progress(end) == end.pos > st.pos \/ node.min > 0
                Order(again) == IF node.greedy THEN again \o skip ELSE skip \o again
            IN  Order(MatchAll([node EXCEPT !.min = Less(node.min), !.max = Less(node.max)],
                               s, SelectSeq(From(node.body, st), Progress)))
        Here(st) ==
            CASE node.t = "empty" -> <<st>>
              [] node.t = "char" -> Step(st, st.pos <= Len(s) /\ s[st.pos] = node.c)
              [] node.t = "any" ->
                     Step(st, st.pos <= Len(s) /\ s[st.pos] \notin {"\n", "\r"})
              [] node.t = "class" -> Step(st, st.pos <= Len(s) /\ InClass(s[st.pos]))
              [] node.t = "bol" -> IF st.pos = 1 THEN <<st>> ELSE <<>>
              [] node.t = "eol" -> IF st.pos = Len(s) + 1 THEN <<st>> ELSE <<>>
              [] node.t = "group" -> Captured(st, From(node.body, st))
              [] node.t = "alt" -> From(node.l, st) \o From(node.r, st)
              [] node.t = "cat" -> MatchAll(node.r, s, From(node.l, st))
              [] node.t = "rep" ->
                     IF node.bounded /\ node.max = 0 THEN <<st>>
                     ELSE Repeat(st, IF node.min = 0 THEN <<st>> ELSE <<>>)
    IN  IF states = <<>> THEN <<>>
        ELSE Here(Head(states)) \o MatchAll(node, s, Tail(states))

\* std::regex_match(value, match, rx): whether the whole of value matches,
\* and the sub-matches match[1..]; threw when rx could not be constructed
MatchWhole(value, rx) ==
    LET AtEnd(end) == end.pos = Len(value) + 1
        First(whole) ==
            IF whole = <<>> THEN [matched |-> FALSE, threw |-> FALSE, sub |-> <<>>]
            ELSE [matched |-> TRUE, threw |-> FALSE, sub |-> whole[1].caps]
    IN  IF ~rx.ok THEN [matched |-> FALSE, threw |-> TRUE, sub |-> <<>>]
        ELSE First(SelectSeq(MatchAll(rx.node, value,
                                      <<[pos |-> 1, caps |-> [i \in 1..rx.ng |-> <<>>]]>>),
                             AtEnd))

(***************************************************************************)
(* The regex-based string validators: their patterns (getRegex) and their  *)
(* const members.                                                          *)
(***************************************************************************)
StringEmailValidator_getRegex ==
    Chars("^[a-zA-Z0-9._%+-]+@[a-zA-Z0-9.-]+\\.[a-zA-Z]{2,}$")

StringUuidValidator_getRegex ==
    Chars("^[0-9a-fA-F]{8}-[0-9a-fA-F]{4}-[1-8][0-9a-fA-F]{3}-[89abAB][0-9a-fA-F]{3}-[0-9a-fA-F]{12}$")

\* enum EUrlProtocolFlag, enum EUrlSecureFlag: a flag value is the set of its
\* bits (AllProtocols is {"Ws", "Http"}, AllSecureFlags {"NonSecure",
\* "Secure"}), and flags & bit is not zero iff the bit is in the set
StringUrlValidator_getRegex(protocol, secure) ==
    Chars("^((?:")
    \o (IF "Ws" \in protocol THEN Chars("ws") ELSE <<>>)
    \o Chars("|")
    \o (IF "Http" \in protocol THEN Chars("http") ELSE <<>>)
    \o Chars(")")
    \o (IF "Secure" \in secure THEN Chars("s") ELSE <<>>)
    \o (IF secure \cap {"NonSecure", "Secure"} # {} THEN Chars("?") ELSE <<>>)
    \o Chars("):\\/\\/([^\\s/$.?#].[^\\s]*)$")

\* enum class EDateTimeOffset: "None", "Optional", "Required"
StringDateTimeGlobalValidator_getRegex(offsetOption) ==
    Chars("^(\\d{4}-\\d{2}-\\d{2})T(\\d{2}:\\d{2}:\\d{2}(?:\\.\\d+)?)")
    \o (CASE offsetOption = "None" -> Chars("Z$")
          [] offsetOption = "Optional" -> Chars("([+-]\\d{2}:\\d{2}|Z)?$")
          [] offsetOption = "Required" -> Chars("([+-]\\d{2}:\\d{2}|Z)$"))

StringDateTimeLocalValidator_getRegex ==
    Chars("^(\\d{4}-(?:0[1-9]|1[0-2])-(?:0[1-9]|[12]\\d|3[01]))T((?:[01]\\d|2[0-3]):[0-5]\\d(?::[0-5]\\d)?)$")

StringDateValidator_getRegex ==
    Chars("^(\\d{4})-(0[1-9]|1[0-2])-(0[1-9]|[12]\\d|3[01])$")

StringTimeValidator_getRegex ==
    Chars("^([01]\\d|2[0-3]):([0-5]\\d)(?::([0-5]\\d(?:\\.\\d+)?))?$")

\* a pattern whose prefix-length group may be absent
StringIpValidator_getRegex_optionalPrefix(version, withPrefixLength) ==
    IF version = "Ipv4"
    THEN Chars("^((?:(?:25[0-5]|2[0-4]\\d|1\\d{2}|[1-9]\\d|\\d)\\.){3}(?:25[0-5]|2[0-4]\\d|1\\d{2}|[1-9]\\d|\\d))")
         \o (IF withPrefixLength THEN Chars("(?:/([0-9]|[12][0-9]|3[0-2]))?") ELSE <<>>)
         \o Chars("$")
    ELSE Chars("^((?:[0-9a-fA-F]{1,4}:){7}[0-9a-fA-F]{1,4}|((?:[0-9a-fA-F]{1,4}:){0,7}[0-9a-fA-F]{1,4})?::((?:[0-9a-fA-F]{1,4}:){0,7}[0-9a-fA-F]{1,4})?|::)")
         \o (IF withPrefixLength
             THEN Chars("(?:/([0-9]|[1-9][0-9]|1[01][0-9]|12[0-8]))?") ELSE <<>>)
         \o Chars("$")

\* enum class EIpVersion: "Ipv4", "Ipv6"
StringIpValidator_getRegex(version, withPrefixLength) ==
    IF version = "Ipv4"
    THEN Chars("^((?:(?:25[0-5]|2[0-4]\\d|1\\d{2}|[1-9]\\d|\\d)\\.){3}(?:25[0-5]|2[0-4]\\d|1\\d{2}|[1-9]\\d|\\d))")
         \o (IF withPrefixLength THEN Chars("(?:/([0-9]|[12][0-9]|3[0-2]))") ELSE <<>>)
         \o Chars("$")
    ELSE Chars("^((?:[0-9a-fA-F]{1,4}:){7}[0-9a-fA-F]{1,4}|((?:[0-9a-fA-F]{1,4}:){0,7}[0-9a-fA-F]{1,4})?::((?:[0-9a-fA-F]{1,4}:){0,7}[0-9a-fA-F]{1,4})?|::)")
         \o (IF withPrefixLength
             THEN Chars("(?:/([0-9]|[1-9][0-9]|1[01][0-9]|12[0-8]))") ELSE <<>>)
         \o Chars("$")

StringMacValidator_getRegex(separator) ==
    Chars("^([0-9A-Fa-f]{2}") \o separator \o Chars("){5}([0-9A-Fa-f]{2})$")

StringRegexValidator(regex) == [kind |-> "StringRegex", regex |-> regex]

StringEmailValidator == [kind |-> "StringEmail", regex |-> StringEmailValidator_getRegex]

StringUuidValidator == [kind |-> "StringUuid", regex |-> StringUuidValidator_getRegex]

StringUrlValidator(protocol, secure) ==
    [kind |-> "StringUrl", protocol |-> protocol, secure |-> secure,
     regex |-> StringUrlValidator_getRegex(protocol, secure)]

StringDateTimeGlobalValidator(offsetOption) ==
    [kind |-> "StringDateTimeGlobal", offsetOption |-> offsetOption,
     regex |-> StringDateTimeGlobalValidator_getRegex(offsetOption)]

StringDateTimeLocalValidator ==
    [kind |-> "StringDateTimeLocal", regex |-> StringDateTimeLocalValidator_getRegex]

StringDateValidator == [kind |-> "StringDate", regex |-> StringDateValidator_getRegex]

StringTimeValidator == [kind |-> "StringTime", regex |-> StringTimeValidator_getRegex]

StringIpValidator(version, withPrefixLength) ==
    [kind |-> "StringIp", version |-> version, withPrefixLength |-> withPrefixLength,
     regex |-> StringIpValidator_getRegex(version, withPrefixLength)]

StringMacValidator(separator) ==
    [kind |-> "StringMac", separator |-> separator,
     regex |-> StringMacValidator_getRegex(separator)]

\* the regex-based validators a caller constructs
RegexValidators ==
    {StringRegexValidator(re) :
        re \in {Chars("^[0-9]+$"), Chars("^([a-z]+)@([a-z]+)\\.com$"),
                Chars("^[0-9]{5}(-[0-9]{4})?$"), Chars("a|ab"), Chars("(")}}
    \cup {StringEmailValidator, StringUuidValidator, StringDateTimeLocalValidator,
          StringDateValidator, StringTimeValidator}
    \cup {StringUrlValidator(p, s) :
              p \in {{"Ws"}, {"Http"}, {"Ws", "Http"}},
              s \in {{"NonSecure"}, {"Secure"}, {"NonSecure", "Secure"}}}
    \cup {StringDateTimeGlobalValidator(o) : o \in {"None", "Optional", "Required"}}
    \cup {StringIpValidator(v, w) : v \in {"Ipv4", "Ipv6"}, w \in BOOLEAN}
    \cup {StringMacValidator(sep) : sep \in {Chars(":"), Chars("-"), <<>>, Chars(".")}}

\* std::regex_match(value, match, std::regex(regex))
regex_match(value, regex) == MatchWhole(value, Regex(regex))

\* a loop over the sub-matches that starts at the whole match
stringRegexMatchFn_fromZero(regex, value, matches) ==
    LET Matched(m) ==
            [ret |-> m.matched,
             matches |-> IF m.matched THEN (matches \o <<value>>) \o m.sub ELSE matches]
    IN  Matched(regex_match(value, regex))

\* the default stringRegexMatchFn: the sub-matches are appended to matches
\* a strategy that clears the caller's list before it appends
stringRegexMatchFn_clearsFirst(regex, value, matches) ==
    LET Matched(m) == [ret |-> m.matched, matches |-> m.sub]
    IN  Matched(regex_match(value, regex))

stringRegexMatchFn(regex, value, matches) ==
    LET Matched(m) == [ret |-> m.matched, matches |-> matches \o m.sub]
    IN  Matched(regex_match(value, regex))

\* the functions an embedder can assign to the static stringRegexMatchFn in
\* place of the default: one that accepts every value, and one that accepts
\* the value equal to the pattern and captures it
Strategies == {"default", "acceptAll", "literal"}

\* a call of the function the static stringRegexMatchFn holds
stringRegexMatchFn_call(regex, value, matches) ==
    CASE matchFn = "default" -> stringRegexMatchFn(regex, value, matches)
      [] matchFn = "acceptAll" -> [ret |-> TRUE, matches |-> matches]
      [] matchFn = "literal" ->
             [ret |-> value = regex,
              matches |-> IF value = regex THEN Append(matches, value) ELSE matches]

StringRegexValidator_match(vd, value, matches) ==
    stringRegexMatchFn_call(vd.regex, value, matches)

StringRegexValidator_validate(vd, value) ==
    StringRegexValidator_match(vd, value, <<>>).ret

StringRegexValidator_validateErr(vd, value, varName, errs) ==
    IF StringRegexValidator_match(vd, value, <<>>).ret
    THEN [ret |-> TRUE, errors |-> errs]
    ELSE [ret |-> FALSE,
          errors |-> PushBack(errs, MsgHeadStr(varName, value) \o
              <<"\", expected to match regex /">> \o vd.regex \o <<"/.">>)]

StringEmailValidator_validate(vd, value) == regex_match(value, vd.regex).matched

StringEmailValidator_validateErr(vd, value, varName, errs) ==
    IF StringEmailValidator_validate(vd, value)
    THEN [ret |-> TRUE, errors |-> errs]
    ELSE [ret |-> FALSE,
          errors |-> PushBack(errs, MsgHeadStr(varName, value) \o
              <<"\", expected to be a valid email address.">>)]

StringUuidValidator_validate(vd, value) == regex_match(value, vd.regex).matched

StringUuidValidator_validateErr(vd, value, varName, errs) ==
    IF StringUuidValidator_validate(vd, value)
    THEN [ret |-> TRUE, errors |-> errs]
    ELSE [ret |-> FALSE,
          errors |-> PushBack(errs, MsgHeadStr(varName, value) \o
              <<"\", expected to be a valid UUID.">>)]

StringUrlValidator_validate(vd, value) == regex_match(value, vd.regex).matched

StringUrlValidator_validateErr(vd, value, varName, errs) ==
    IF StringUrlValidator_validate(vd, value)
    THEN [ret |-> TRUE, errors |-> errs]
    ELSE [ret |-> FALSE,
          errors |-> PushBack(errs, MsgHeadStr(varName, value) \o
              <<"\", expected to be a valid URL of protocol '">>
              \o (IF "Ws" \in vd.protocol THEN <<"ws">> ELSE <<>>)
              \o <<"|">>
              \o (IF "Http" \in vd.protocol THEN <<"http">> ELSE <<>>)
              \o <<")">>
              \o (IF "Secure" \in vd.secure THEN <<"s">> ELSE <<>>)
              \o (IF vd.secure \cap {"NonSecure", "Secure"} # {} THEN <<"?">> ELSE <<>>)
              \o <<"'.">>)]

StringDateTimeGlobalValidator_validate(vd, value) ==
    regex_match(value, vd.regex).matched

StringDateTimeGlobalValidator_validateErr(vd, value, varName, errs) ==
    IF StringDateTimeGlobalValidator_validate(vd, value)
    THEN [ret |-> TRUE, errors |-> errs]
    ELSE [ret |-> FALSE,
          errors |-> PushBack(errs, MsgHeadStr(varName, value) \o
              <<"\", expected to be a valid global date time.">>)]

StringDateTimeLocalValidator_validate(vd, value) ==
    regex_match(value, vd.regex).matched

StringDateTimeLocalValidator_validateErr(vd, value, varName, errs) ==
    IF StringDateTimeLocalValidator_validate(vd, value)
    THEN [ret |-> TRUE, errors |-> errs]
    ELSE [ret |-> FALSE,
          errors |-> PushBack(errs, MsgHeadStr(varName, value) \o
              <<"\", expected to be a valid local date time.">>)]

StringDateValidator_validate(vd, value) == regex_match(value, vd.regex).matched

StringDateValidator_validateErr(vd, value, varName, errs) ==
    IF StringDateValidator_validate(vd, value)
    THEN [ret |-> TRUE, errors |-> errs]
    ELSE [ret |-> FALSE,
          errors |-> PushBack(errs, MsgHeadStr(varName, value) \o
              <<"\", expected to be a valid date.">>)]

StringTimeValidator_validate(vd, value) == regex_match(value, vd.regex).matched

StringTimeValidator_validateErr(vd, value, varName, errs) ==
    IF StringTimeValidator_validate(vd, value)
    THEN [ret |-> TRUE, errors |-> errs]
    ELSE [ret |-> FALSE,
          errors |-> PushBack(errs, MsgHeadStr(varName, value) \o
              <<"\", expected to be a valid time.">>)]

StringIpValidator_validate(vd, value) == regex_match(value, vd.regex).matched

StringIpValidator_validateErr(vd, value, varName, errs) ==
    IF StringIpValidator_validate(vd, value)
    THEN [ret |-> TRUE, errors |-> errs]
    ELSE [ret |-> FALSE,
          errors |-> PushBack(errs, MsgHeadStr(varName, value) \o
              <<"\", expected to be a valid IP",
                (IF vd.version = "Ipv4" THEN "v4" ELSE "v6"), " address",
                (IF vd.withPrefixLength THEN " with prefix length" ELSE ""), ".">>)]

StringMacValidator_validate(vd, value) == regex_match(value, vd.regex).matched

StringMacValidator_validateErr(vd, value, varName, errs) ==
    IF StringMacValidator_validate(vd, value)
    THEN [ret |-> TRUE, errors |-> errs]
    ELSE [ret |-> FALSE,
          errors |-> PushBack(errs, MsgHeadStr(varName, value) \o
              <<"\", expected to be a valid MAC address with separator \"">>
              \o vd.separator \o <<"\".">>)]

(***************************************************************************)
(* The calls a caller can make on a validator: the overloads are resolved  *)
(* on the validator's type.                                                *)
(***************************************************************************)
IsNumberValidator(vd) ==
    vd.kind \in {"NumberBetween", "NumberGreaterThan", "NumberGreaterOrEqual",
                 "NumberLessThan", "NumberLessOrEqual", "NumberMultipleOf",
                 "NumberLiteral"}

HasClamp(vd) ==
    vd.kind \in {"NumberBetween", "NumberGreaterThan", "NumberGreaterOrEqual",
                 "NumberLessThan", "NumberLessOrEqual"}

HasCrop(vd) == vd.kind = "StringLengthMax"

\* the validators that build a std::regex in validate, and those whose
\* pattern makes its constructor throw std::regex_error
HasRegex(vd) ==
    vd.kind \in {"StringRegex", "StringEmail", "StringUuid", "StringUrl",
                 "StringDateTimeGlobal", "StringDateTimeLocal", "StringDate",
                 "StringTime", "StringIp", "StringMac"}
Throws(vd) ==
    /\ HasRegex(vd)
    /\ vd.kind = "StringRegex" => matchFn = "default"
    /\ regex_match(<<>>, vd.regex).threw

Validate(vd, value) ==
    CASE vd.kind = "NumberBetween" -> NumberBetweenValidator_validate(vd, value)
      [] vd.kind = "NumberGreaterThan" -> NumberGreaterThanValidator_validate(vd, value)
      [] vd.kind = "NumberGreaterOrEqual" -> NumberGreaterOrEqualValidator_validate(vd, value)
      [] vd.kind = "NumberLessThan" -> NumberLessThanValidator_validate(vd, value)
      [] vd.kind = "NumberLessOrEqual" -> NumberLessOrEqualValidator_validate(vd, value)
      [] vd.kind = "NumberMultipleOf" -> NumberMultipleOfValidator_validate(vd, value)
      [] vd.kind = "NumberLiteral" -> NumberLiteralValidator_validate(vd, value)
      [] vd.kind = "StringLengthBetween" -> StringLengthBetweenValidator_validate(vd, value)
      [] vd.kind = "StringLengthMin" -> StringLengthMinValidator_validate(vd, value)
      [] vd.kind = "StringLengthMax" -> StringLengthMaxValidator_validate(vd, value)
      [] vd.kind = "StringLiteral" -> StringLiteralValidator_validate(vd, value)
      [] vd.kind = "StringStartsWith" -> StringStartsWithValidator_validate(vd, value)
      [] vd.kind = "StringEndsWith" -> StringEndsWithValidator_validate(vd, value)
      [] vd.kind = "StringIncludes" -> StringIncludesValidator_validate(vd, value)

ValidateErr(vd, value, varName, errs) ==
    CASE vd.kind = "NumberBetween" ->
             NumberBetweenValidator_validateErr(vd, value, varName, errs)
      [] vd.kind = "NumberGreaterThan" ->
             NumberGreaterThanValidator_validateErr(vd, value, varName, errs)
      [] vd.kind = "NumberGreaterOrEqual" ->
             NumberGreaterOrEqualValidator_validateErr(vd, value, varName, errs)
      [] vd.kind = "NumberLessThan" ->
             NumberLessThanValidator_validateErr(vd, value, varName, errs)
      [] vd.kind = "NumberLessOrEqual" ->
             NumberLessOrEqualValidator_validateErr(vd, value, varName, errs)
      [] vd.kind = "NumberMultipleOf" ->
             NumberMultipleOfValidator_validateErr(vd, value, varName, errs)
      [] vd.kind = "NumberLiteral" ->
             NumberLiteralValidator_validateErr(vd, value, varName, errs)
      [] vd.kind = "StringLengthBetween" ->
             StringLengthBetweenValidator_validateErr(vd, value, varName, errs)
      [] vd.kind = "StringLengthMin" ->
             StringLengthMinValidator_validateErr(vd, value, varName, errs)
      [] vd.kind = "StringLengthMax" ->
             StringLengthMaxValidator_validateErr(vd, value, varName, errs)
      [] vd.kind = "StringLiteral" ->
             StringLiteralValidator_validateErr(vd, value, varName, errs)
      [] vd.kind = "StringStartsWith" ->
             StringStartsWithValidator_validateErr(vd, value, varName, errs)
      [] vd.kind = "StringEndsWith" ->
             StringEndsWithValidator_validateErr(vd, value, varName, errs)
      [] vd.kind = "StringIncludes" ->
             StringIncludesValidator_validateErr(vd, value, varName, errs)

\* the same calls on the regex-based validators
ValidateRegex(vd, value) ==
    CASE vd.kind = "StringRegex" -> StringRegexValidator_validate(vd, value)
      [] vd.kind = "StringEmail" -> StringEmailValidator_validate(vd, value)
      [] vd.kind = "StringUuid" -> StringUuidValidator_validate(vd, value)
      [] vd.kind = "StringUrl" -> StringUrlValidator_validate(vd, value)
      [] vd.kind = "StringDateTimeGlobal" ->
             StringDateTimeGlobalValidator_validate(vd, value)
      [] vd.kind = "StringDateTimeLocal" ->
             StringDateTimeLocalValidator_validate(vd, value)
      [] vd.kind = "StringDate" -> StringDateValidator_validate(vd, value)
      [] vd.kind = "StringTime" -> StringTimeValidator_validate(vd, value)
      [] vd.kind = "StringIp" -> StringIpValidator_validate(vd, value)
      [] vd.kind = "StringMac" -> StringMacValidator_validate(vd, value)

ValidateRegexErr(vd, value, varName, errs) ==
    CASE vd.kind = "StringRegex" ->
             StringRegexValidator_validateErr(vd, value, varName, errs)
      [] vd.kind = "StringEmail" ->
             StringEmailValidator_validateErr(vd, value, varName, errs)
      [] vd.kind = "StringUuid" ->
             StringUuidValidator_validateErr(vd, value, varName, errs)
      [] vd.kind = "StringUrl" ->
             StringUrlValidator_validateErr(vd, value, varName, errs)
      [] vd.kind = "StringDateTimeGlobal" ->
             StringDateTimeGlobalValidator_validateErr(vd, value, varName, errs)
      [] vd.kind = "StringDateTimeLocal" ->
             StringDateTimeLocalValidator_validateErr(vd, value, varName, errs)
      [] vd.kind = "StringDate" ->
             StringDateValidator_validateErr(vd, value, varName, errs)
      [] vd.kind = "StringTime" ->
             StringTimeValidator_validateErr(vd, value, varName, errs)
      [] vd.kind = "StringIp" ->
             StringIpValidator_validateErr(vd, value, varName, errs)
      [] vd.kind = "StringMac" ->
             StringMacValidator_validateErr(vd, value, varName, errs)

\* validate called on any leaf validator
LeafValidate(vd, value) ==
    IF HasRegex(vd) THEN ValidateRegex(vd, value) ELSE Validate(vd, value)

LeafValidateErr(vd, value, varName, errs) ==
    IF HasRegex(vd) THEN ValidateRegexErr(vd, value, varName, errs)
    ELSE ValidateErr(vd, value, varName, errs)

Clamp(vd, value) ==
    CASE vd.kind = "NumberBetween" -> NumberBetweenValidator_clamp(vd, value)
      [] vd.kind = "NumberGreaterThan" -> NumberGreaterThanValidator_clamp(vd, value)
      [] vd.kind = "NumberGreaterOrEqual" -> NumberGreaterOrEqualValidator_clamp(vd, value)
      [] vd.kind = "NumberLessThan" -> NumberLessThanValidator_clamp(vd, value)
      [] vd.kind = "NumberLessOrEqual" -> NumberLessOrEqualValidator_clamp(vd, value)

(***************************************************************************)
(* The validators a caller can construct (struct NumberValidator, struct   *)
(* StringValidator) and the values it can pass, within the bounds.         *)
(***************************************************************************)
\* NumberValidator::between called with two arguments: includeMin = true,
\* includeMax = true
NumberValidator_between(min, max) == NumberBetweenValidator(min, max, TRUE, TRUE)

NumberValidators ==
    {NumberBetweenValidator(mn, mx, imn, imx) :
        mn \in NumBounds, mx \in NumBounds, imn \in BOOLEAN, imx \in BOOLEAN}
    \cup {NumberValidator_between(mn, mx) : mn \in NumBounds, mx \in NumBounds}
    \cup {NumberGreaterThanValidator(b) : b \in NumBounds}
    \cup {NumberGreaterOrEqualValidator(b) : b \in NumBounds}
    \cup {NumberLessThanValidator(b) : b \in NumBounds}
    \cup {NumberLessOrEqualValidator(b) : b \in NumBounds}
    \cup {NumberMultipleOfValidator(d) : d \in ((-MaxNum)..MaxNum) \ {0}}
    \cup {NumberLiteralValidator(l) : l \in SeqsUpTo(NumBounds, 2)}

StringValidators ==
    {StringLengthBetweenValidator(mn, mx) : mn \in 0..MaxStrLen, mx \in 0..MaxStrLen}
    \cup {StringLengthMinValidator(n) : n \in 0..MaxStrLen}
    \cup {StringLengthMaxValidator(n) : n \in 0..MaxStrLen}
    \cup {StringLiteralValidator(l) : l \in SeqsUpTo(StrVals, 2)}
    \cup {StringStartsWithValidator(p) : p \in SeqsUpTo({"a", "b"}, 2)}
    \cup {StringEndsWithValidator(p) : p \in SeqsUpTo({"a", "b"}, 2)}
    \cup {StringIncludesValidator(p) : p \in SeqsUpTo({"a", "b"}, 2)}

LeafValidators == NumberValidators \cup StringValidators \cup RegexValidators

\* the texts passed to the regex-based validators: for each of them some
\* that it accepts and some that it rejects
RegexVals(vd) ==
    CASE vd.kind = "StringRegex" ->
             {<<>>, Chars("12345"), Chars("ab@cd.com"), Chars("ab")}
      [] vd.kind = "StringEmail" -> {Chars("a@b.cc"), Chars("a@b.c")}
      [] vd.kind = "StringUuid" ->
             {Chars("123e4567-e89b-12d3-a456-426614174000"),
              Chars("123e4567-e89b-92d3-a456-426614174000")}
      [] vd.kind = "StringUrl" ->
             {Chars("https://a.b"), Chars("http://a.b"), Chars("ws://a.b"),
              Chars("://a.b"), Chars("ftp://a.b")}
      [] vd.kind = "StringDateTimeGlobal" ->
             {Chars("2024-01-02T03:04:05Z"), Chars("2024-01-02T03:04:05"),
              Chars("2024-01-02")}
      [] vd.kind = "StringDateTimeLocal" ->
             {Chars("2024-01-02T03:04"), Chars("2024-01-02T24:00")}
      [] vd.kind = "StringDate" -> {Chars("2024-02-30"), Chars("2024-13-01")}
      [] vd.kind = "StringTime" -> {Chars("23:59"), Chars("24:00")}
      [] vd.kind = "StringIp" ->
             IF vd.version = "Ipv4"
             THEN {Chars("10.0.0.1"), Chars("10.0.0.1/8"), Chars("10.0.0.256")}
             ELSE {Chars("::1"), Chars("::1/64"), Chars("g::1")}
      [] vd.kind = "StringMac" ->
             {Chars("00:1A:2b:3C:4d:5E"), Chars("00-1A-2b-3C-4d-5E"),
              Chars("001A2b3C4d5E"), Chars("00:1A")}

\* further texts for the formats with flags: schemes with and without the s,
\* and addresses with and without a prefix length; for the substring checks,
\* texts longer than the text looked for; for the literals, another case
ProbeVals(vd) ==
    CASE vd.kind \in {"StringStartsWith", "StringEndsWith", "StringIncludes"} ->
             SeqsUpTo({"a", "b"}, 3)
      [] vd.kind = "StringLiteral" -> {<<"A">>, <<"a", "b">>}
      [] vd.kind = "StringMac" ->
             {Chars("00.1A.2b.3C.4d.5E"), Chars("00:1A:2b:3C:4d:5G"),
              Chars("00:1A:2b:3C:4d"), Chars("00:1A:2b:3C:4d:5E:6f"),
              Chars("00:1A-2b:3C:4d:5E")}
      [] vd.kind = "StringRegex" ->
             {Chars("test@example.com"), Chars("12345-6789"), Chars("a"),
              Chars("12a45"), Chars("ab@cd.org")}
      [] vd.kind = "StringUrl" ->
             {Chars("wss://a.b"), Chars("s://a.b"), Chars("https:/a.b"),
              Chars("httpss://a.b"), Chars("http://")}
      [] vd.kind = "StringIp" ->
             IF vd.version = "Ipv4"
             THEN {Chars("256.1.1.1"), Chars("255.255.255.255"), Chars("0.0.0.0"),
                   Chars("1.2.3"), Chars("1.2.3.4.5"), Chars("1.2.3.4/0"),
                   Chars("1.2.3.4/32"), Chars("1.2.3.4/33"), Chars("1.2.3.4/"),
                   Chars("192.168.1.1/24"), Chars("192.168.1.1/33"), Chars("1.2.3.4/8/8")}
             ELSE {Chars("::1/0"), Chars("::1/128"), Chars("::1/129"), Chars("::1/"),
                   Chars("1:2:3:4:5:6:7:8"), Chars("1:2:3:4:5:6:7:8/64")}
      [] OTHER -> {}

\* operator% takes integers only, so a multipleOf validator has an integer T
ValuesOf(vd) ==
    IF vd.kind = "NumberMultipleOf" THEN TMin..TMax
    ELSE IF IsNumberValidator(vd) THEN NumVals
    ELSE IF HasRegex(vd) THEN RegexVals(vd)
    ELSE StrVals

VarNames == {<<"x">>}

\* the threads that call validate on the one validator, and a thread that
\* is not in a call: its error list is its own and starts empty
Callers == {"t1", "t2"}
NotCalling == [pc |-> "idle", value |-> <<>>, ret |-> TRUE, errors |-> <<>>]

(***************************************************************************)
(* Leaf validators called directly on bare values.                         *)
(***************************************************************************)
LeafInit ==
    /\ validator \in LeafValidators
    /\ errors = <<>>
    /\ prevErrors = <<>>
    /\ op = "constructed"
    /\ arg = IF IsNumberValidator(validator) THEN 0 ELSE <<>>
    /\ argName = <<>>
    /\ ret = TRUE
    /\ out = IF IsNumberValidator(validator) THEN 0 ELSE <<>>
    /\ bindings = <<>>
    /\ instance = <<>>
    /\ stopOnError = FALSE
    /\ evaluated = <<>>
    /\ matchFn = "default"
    /\ callerMatches = <<>>
    /\ prevMatches = <<>>
    /\ callers = [c \in Callers |-> NotCalling]

\* the process was ended by a fault: nothing is called any more
Trapped == op \in {"validateTrapped", "validateErrTrapped"}

\* bool validate(value) const.  What a build makes of a remainder that has
\* no defined result: the division instruction raises a fault that ends the
\* process, or it wraps and leaves the remainder 0
Validated(value) ==
    /\ ~Trapped
    /\ IF Throws(validator)
       THEN op' = "validateThrew" /\ UNCHANGED ret
       ELSE IF RemainderUndefined(validator, value)
            THEN \E outcome \in {"trap", "zero"} :
                     IF outcome = "trap"
                     THEN op' = "validateTrapped" /\ UNCHANGED ret
                     ELSE op' = "validate" /\ ret' = TRUE
            ELSE op' = "validate" /\ ret' = LeafValidate(validator, value)
    /\ arg' = value
    /\ prevErrors' = errors
    /\ prevMatches' = callerMatches
    /\ UNCHANGED <<callers, matchFn, callerMatches, validator, errors, argName, out,
                   bindings, instance, stopOnError, evaluated>>

CallValidate == \E value \in ValuesOf(validator) : Validated(value)

\* bool validate(value, varName, errors) const
CallValidateErr ==
    \E value \in ValuesOf(validator), varName \in VarNames :
        /\ ~Trapped
        /\ Len(errors) < MaxErrors
        /\ IF Throws(validator)
           THEN op' = "validateErrThrew" /\ UNCHANGED <<ret, errors>>
           ELSE IF RemainderUndefined(validator, value)
                THEN \E outcome \in {"trap", "zero"} :
                         IF outcome = "trap"
                         THEN op' = "validateErrTrapped" /\ UNCHANGED <<ret, errors>>
                         ELSE op' = "validateErr" /\ ret' = TRUE /\ UNCHANGED errors
                ELSE LET r == LeafValidateErr(validator, value, varName, errors)
                     IN  /\ op' = "validateErr"
                         /\ ret' = r.ret
                         /\ errors' = r.errors
        /\ arg' = value
        /\ argName' = varName
        /\ prevErrors' = errors
        /\ UNCHANGED <<callers, matchFn, callerMatches, prevMatches, validator, out, bindings, instance, stopOnError, evaluated>>

\* T clamp(T value) const
CallClamp ==
    \E value \in ValuesOf(validator) :
        /\ HasClamp(validator)
        /\ op' = "clamp"
        /\ arg' = value
        /\ out' = Clamp(validator, value)
        /\ prevErrors' = errors
        /\ UNCHANGED <<callers, matchFn, callerMatches, prevMatches, validator, errors, argName, ret,
                       bindings, instance, stopOnError, evaluated>>

\* std::string crop(const std::string& value), on texts some of which are
\* longer than any max
CallCrop ==
    \E value \in SeqsUpTo({"a", "b"}, MaxStrLen + 1) :
        /\ HasCrop(validator)
        /\ op' = "crop"
        /\ arg' = value
        /\ out' = StringLengthMaxValidator_crop(validator, value)
        /\ prevErrors' = errors
        /\ UNCHANGED <<callers, matchFn, callerMatches, prevMatches, validator, errors, argName, ret,
                       bindings, instance, stopOnError, evaluated>>

\* validate called with the texts that probe the grammar of a format
CallValidateProbe == \E value \in ProbeVals(validator) : Validated(value)

LeafNext == CallValidate \/ CallValidateErr

SpecLeaf == LeafInit /\ [][LeafNext]_vars

\* the one-argument validate alone, on the wider range of texts
ValidateNext == CallValidate \/ CallValidateProbe

SpecValidate == LeafInit /\ [][ValidateNext]_vars

(***************************************************************************)
(* The regex-based validators, with an embedder that assigns the static    *)
(* stringRegexMatchFn and a caller that asks for the captures.             *)
(***************************************************************************)
\* stringRegexMatchFn = fn
ReplaceStrategy ==
    \E fn \in Strategies \ {matchFn} :
        /\ matchFn' = fn
        /\ op' = "replaceStrategy"
        /\ UNCHANGED <<callers, validator, errors, prevErrors, arg, argName, ret, out, bindings,
                       instance, stopOnError, evaluated, callerMatches, prevMatches>>

\* bool match(value, matches) const, matches a fresh list or the list of the
\* caller's last call
CallMatch ==
    \E value \in ValuesOf(validator) \cup ProbeVals(validator),
       passed \in {<<>>, callerMatches} :
        /\ validator.kind = "StringRegex"
        /\ Len(passed) <= MaxMatches
        /\ IF Throws(validator)
           THEN op' = "matchThrew" /\ callerMatches' = passed /\ UNCHANGED ret
           ELSE LET r == StringRegexValidator_match(validator, value, passed)
                IN  /\ op' = "match"
                    /\ ret' = r.ret
                    /\ callerMatches' = r.matches
        /\ arg' = value
        /\ prevMatches' = passed
        /\ prevErrors' = errors
        /\ UNCHANGED <<callers, validator, errors, argName, out, bindings, instance,
                       stopOnError, evaluated, matchFn>>

RegexInit == LeafInit /\ HasRegex(validator)

RegexNext == CallValidate \/ CallValidateProbe \/ CallMatch \/ ReplaceStrategy

SpecRegex == RegexInit /\ [][RegexNext]_vars

(***************************************************************************)
(* Several threads in validate(value, varName, errors) on one validator,   *)
(* each with its own varName and its own error list.  A call is three      *)
(* steps: entering, the one-argument validate, and the message.            *)
(***************************************************************************)
\* thread c enters validate(value, c, errors of c)
Enter(c) ==
    \E value \in ValuesOf(validator) :
        /\ ~Trapped
        /\ callers[c].pc = "idle"
        /\ callers' = [callers EXCEPT ![c].pc = "entered", ![c].value = value]
        /\ op' = "enter"
        /\ arg' = value
        /\ UNCHANGED <<validator, errors, prevErrors, argName, ret, out, bindings, instance,
                       stopOnError, evaluated, matchFn, callerMatches, prevMatches>>

\* if (validate(value)) return true;
Decide(c) ==
    /\ ~Trapped
    /\ callers[c].pc = "entered"
    /\ IF Throws(validator)
       THEN op' = "threw" /\ callers' = [callers EXCEPT ![c].pc = "threw"]
       ELSE IF RemainderUndefined(validator, callers[c].value)
            THEN \E outcome \in {"trap", "zero"} :
                     IF outcome = "trap"
                     THEN op' = "validateErrTrapped" /\ UNCHANGED callers
                     ELSE /\ op' = "decide"
                          /\ callers' = [callers EXCEPT ![c].pc = "returned", ![c].ret = TRUE]
            ELSE /\ op' = "decide"
                 /\ IF LeafValidate(validator, callers[c].value)
                    THEN callers' = [callers EXCEPT ![c].pc = "returned", ![c].ret = TRUE]
                    ELSE callers' = [callers EXCEPT ![c].pc = "failed"]
    /\ UNCHANGED <<validator, errors, prevErrors, arg, argName, ret, out, bindings, instance,
                   stopOnError, evaluated, matchFn, callerMatches, prevMatches>>

\* the message a failed call writes into its own std::ostringstream
MessageOf(c) ==
    LeafValidateErr(validator, callers[c].value, <<c>>, <<>>).errors[1]

\* a variant in which the threads append to one list they all share
Report_sharedList(c) ==
    /\ ~Trapped
    /\ callers[c].pc = "failed"
    /\ callers' = [d \in Callers |->
                     IF d = c
                     THEN [callers[d] EXCEPT !.pc = "returned", !.ret = FALSE,
                                             !.errors = PushBack(@, MessageOf(c))]
                     ELSE [callers[d] EXCEPT !.errors = PushBack(@, MessageOf(c))]]
    /\ op' = "report"
    /\ UNCHANGED <<validator, errors, prevErrors, arg, argName, ret, out, bindings, instance,
                   stopOnError, evaluated, matchFn, callerMatches, prevMatches>>

\* errors.push_back(errorMessage.str()); return false;
Report(c) ==
    /\ ~Trapped
    /\ callers[c].pc = "failed"
    /\ callers' = [callers EXCEPT ![c].pc = "returned", ![c].ret = FALSE,
                                  ![c].errors = PushBack(callers[c].errors, MessageOf(c))]
    /\ op' = "report"
    /\ UNCHANGED <<validator, errors, prevErrors, arg, argName, ret, out, bindings, instance,
                   stopOnError, evaluated, matchFn, callerMatches, prevMatches>>

ConcurrentNext == \E c \in Callers : Enter(c) \/ Decide(c) \/ Report(c)

SpecConcurrent == LeafInit /\ [][ConcurrentNext]_vars

(***************************************************************************)
(* The repair helpers (clamp, crop) called on bare values.                 *)
(***************************************************************************)
RepairInit ==
    /\ LeafInit
    /\ HasClamp(validator) \/ HasCrop(validator)

RepairNext == CallClamp \/ CallCrop

SpecRepair == RepairInit /\ [][RepairNext]_vars

(***************************************************************************)
(* The schema builder, ValidatorBuilder<T>.                                *)
(*                                                                         *)
(* A binding is a record of the field name, the accessor (the member of    *)
(* the record it reads) and the validator: a leaf validator for a scalar   *)
(* or vector binding, the bindings of another builder for a nested one.    *)
(***************************************************************************)
Binding(kind, name, field, vd) ==
    [kind |-> kind, name |-> name, field |-> field, validator |-> vd]

\* fieldPath = rootLabel + "." + fieldName, no leading dot for an empty root
Path(rootLabel, fieldName) ==
    IF rootLabel = <<>> THEN fieldName ELSE rootLabel \o <<".">> \o fieldName

\* fieldPath + "[" + index + "]", index from 0
IndexedPath(path, index) == path \o <<"[", ToString(index), "]">>

\* one leaf check: the bound validator's validate(value, path, errors)
LeafCheck(vd, value, path, st) ==
    LET r == ValidateErr(vd, value, path, st.errors)
    IN  [errors |-> r.errors,
         evaluated |-> Append(st.evaluated, path),
         ok |-> st.ok /\ r.ret]

\* the element validator on the elements from index on, in index order
RECURSIVE ValidateElements(_, _, _, _, _, _)
ValidateElements(vd, elems, index, path, st, stop) ==
    IF index >= Len(elems) \/ (stop /\ ~st.ok) THEN st
    ELSE ValidateElements(vd, elems, index + 1, path,
             LeafCheck(vd, elems[index + 1], IndexedPath(path, index), st), stop)

\* the bindings from the i-th on, in registration order
RECURSIVE ValidateBindings(_, _, _, _, _, _)
ValidateBindings(bs, i, inst, rootLabel, st, stop) ==
    IF i > Len(bs) \/ (stop /\ ~st.ok) THEN st
    ELSE LET b == bs[i]
             path == Path(rootLabel, b.name)
             value == inst[b.field]
             after ==
                 CASE b.kind = "scalar" -> LeafCheck(b.validator, value, path, st)
                   [] b.kind = "vector" ->
                          ValidateElements(b.validator, value, 0, path, st, stop)
                   [] b.kind = "nested" ->
                          ValidateBindings(b.validator, 1, value, path, st, stop)
         IN  ValidateBindings(bs, i + 1, inst, rootLabel, after, stop)

\* bool validate(instance, rootLabel, errors, stopOnError)
ValidatorBuilder_validate(bs, inst, rootLabel, errs, stop) ==
    LET st == ValidateBindings(bs, 1, inst, rootLabel,
                  [errors |-> errs, evaluated |-> <<>>, ok |-> TRUE], stop)
    IN  [ret |-> st.ok, errors |-> st.errors, evaluated |-> st.evaluated]

\* bool validate(instance, rootLabel): no error list; a discarded list and
\* an early exit at the first failing check
ValidatorBuilder_validateNoErrors(bs, inst, rootLabel) ==
    LET r == ValidatorBuilder_validate(bs, inst, rootLabel, <<>>, TRUE)
    IN  [ret |-> r.ret, evaluated |-> r.evaluated]

(***************************************************************************)
(* The record types the builders are instantiated with, and the builders   *)
(* that are registered as the validator of a nested field.                 *)
(*   Root  { int a; int b; std::vector<int> v; Child c; }                  *)
(*   Child { int p; Grand d; }      Grand { int g; }                       *)
(***************************************************************************)
FieldVals == {0, 1}

OneValidator == NumberBetweenValidator(1, 1, TRUE, TRUE)
PositiveValidator == NumberGreaterThanValidator(0)

GrandBuilder == <<Binding("scalar", <<"g">>, "g", PositiveValidator)>>

ChildBuilder ==
    <<Binding("scalar", <<"p">>, "p", OneValidator),
      Binding("nested", <<"d">>, "d", GrandBuilder)>>

ScalarBindings ==
    {Binding("scalar", <<"a">>, "a", OneValidator),
     Binding("scalar", <<"b">>, "b", PositiveValidator)}

VectorBindings == {Binding("vector", <<"v">>, "v", OneValidator)}

NestedBindings == {Binding("nested", <<"c">>, "c", ChildBuilder)}

RootLabels == {<<>>, <<"r">>}

\* what the caller's error list may already hold when it is passed
CallerLists == {<<>>, <<<<"earlier">>>>}

Reads(bs) == {bs[i].field : i \in 1..Len(bs)}

\* the instances a caller passes; a member no binding reads keeps its
\* default value, since no accessor ever looks at it
Instances(bs) ==
    [a : IF "a" \in Reads(bs) THEN FieldVals ELSE {0},
     b : IF "b" \in Reads(bs) THEN FieldVals ELSE {0},
     v : IF "v" \in Reads(bs) THEN SeqsUpTo(FieldVals, MaxVec) ELSE {<<>>},
     c : IF "c" \in Reads(bs)
         THEN [p : FieldVals, d : [g : FieldVals]]
         ELSE {[p |-> 0, d |-> [g |-> 0]]}]

NoInstance == [a |-> 0, b |-> 0, v |-> <<>>, c |-> [p |-> 0, d |-> [g |-> 0]]]

Idle == op \in {"constructed", "add", "idle"}

Init ==
    /\ bindings = <<>>
    /\ validator = OneValidator
    /\ errors = <<>>
    /\ prevErrors = <<>>
    /\ op = "constructed"
    /\ arg = 0
    /\ argName = <<>>
    /\ ret = TRUE
    /\ out = 0
    /\ instance = NoInstance
    /\ stopOnError = FALSE
    /\ evaluated = <<>>
    /\ matchFn = "default"
    /\ callerMatches = <<>>
    /\ prevMatches = <<>>
    /\ callers = [c \in Callers |-> NotCalling]

Register(b) ==
    /\ Idle
    /\ Len(bindings) < MaxBindings
    /\ bindings' = Append(bindings, b)
    /\ op' = "add"
    /\ UNCHANGED <<callers, matchFn, callerMatches, prevMatches, validator, errors, prevErrors, arg, argName, ret, out,
                   instance, stopOnError, evaluated>>

\* add(fieldName, accessor, validator), validator a leaf validator
Add == \E b \in ScalarBindings : Register(b)

\* addVector(fieldName, accessor, elementValidator)
AddVector == \E b \in VectorBindings : Register(b)

\* add(fieldName, accessor, builder), the validator another builder
AddNested == \E b \in NestedBindings : Register(b)

\* validate(instance, rootLabel, errors, stopOnError)
CallBuilderValidate ==
    /\ Idle
    /\ \E inst \in Instances(bindings), rootLabel \in RootLabels,
          errs \in CallerLists, stop \in BOOLEAN :
        /\ \E r \in {ValidatorBuilder_validate(bindings, inst, rootLabel, errs, stop)} :
               /\ ret' = r.ret
               /\ errors' = r.errors
               /\ evaluated' = r.evaluated
        /\ op' = "builderValidate"
        /\ instance' = inst
        /\ argName' = rootLabel
        /\ stopOnError' = stop
        /\ prevErrors' = errs
        /\ UNCHANGED <<callers, matchFn, callerMatches, prevMatches, validator, arg, out, bindings>>

\* validate(instance) and validate(instance, rootLabel)
CallBuilderValidateNoErrors ==
    /\ Idle
    /\ \E inst \in Instances(bindings), rootLabel \in RootLabels :
        /\ \E r \in {ValidatorBuilder_validateNoErrors(bindings, inst, rootLabel)} :
               /\ ret' = r.ret
               /\ evaluated' = r.evaluated
        /\ op' = "builderValidateNoErrors"
        /\ instance' = inst
        /\ argName' = rootLabel
        /\ stopOnError' = TRUE
        /\ errors' = <<>>
        /\ prevErrors' = <<>>
        /\ UNCHANGED <<callers, matchFn, callerMatches, prevMatches, validator, arg, out, bindings>>

\* the caller is done with the results of a call (errors.clear())
CallerDiscards ==
    /\ ~Idle
    /\ op' = "idle"
    /\ errors' = <<>>
    /\ prevErrors' = <<>>
    /\ instance' = NoInstance
    /\ argName' = <<>>
    /\ ret' = TRUE
    /\ stopOnError' = FALSE
    /\ evaluated' = <<>>
    /\ UNCHANGED <<callers, matchFn, callerMatches, prevMatches, validator, arg, out, bindings>>

Next ==
    \/ Add
    \/ AddVector
    \/ AddNested
    \/ CallBuilderValidate
    \/ CallBuilderValidateNoErrors
    \/ CallerDiscards

Spec == Init /\ [][Next]_vars

(***************************************************************************)
(* Claims about the leaf validators.                                       *)
(***************************************************************************)
IsPrefixOf(p, s) == Len(p) <= Len(s) /\ SubSeq(s, 1, Len(p)) = p

\* C3: for every leaf validator and value, validate(value, varName, errors)
\* returns what validate(value) returns; when it returns true errors is
\* unchanged; when it returns false exactly one message was appended at the
\* end and the entries already there are unchanged, in their order.
C3_ValidateErrAgreesAndAppendsOne ==
    op = "validateErr" =>
        /\ ret = LeafValidate(validator, arg)
        /\ ret => errors = prevErrors
        /\ ~ret => /\ Len(errors) = Len(prevErrors) + 1
                   /\ IsPrefixOf(prevErrors, errors)

\* C3 witness: a second failing call on a shared list that already holds the
\* message of a first failing call.
C3_Witness ==
    /\ op = "validateErr" /\ ~ret
    /\ Len(prevErrors) = 1 /\ Len(errors) = 2
    /\ ~LeafValidate(validator, arg)

IsBetween(vd) == vd.kind = "NumberBetween"
Inclusive(vd) == vd.includeMin /\ vd.includeMax

\* C4 (as stated): for every between(min, max) with inclusive bounds and
\* min <= max and every value v, validate(v) == (v >= min && v <= max),
\* clamp(clamp(v)) == clamp(v) and validate(clamp(v)) is true.
C4_InclusiveClampAlwaysValid ==
    (op = "clamp" /\ IsBetween(validator) /\ Inclusive(validator)
        /\ Le(validator.min, validator.max)) =>
        /\ Validate(validator, arg) = (Ge(arg, validator.min) /\ Le(arg, validator.max))
        /\ Clamp(validator, out) = out
        /\ Validate(validator, out)

\* C4 (amended): the same, for every value v that is ordered against the
\* bounds, that is every v other than a floating-point NaN.
C4_InclusiveClampValidUnlessNaN ==
    (op = "clamp" /\ IsBetween(validator) /\ Inclusive(validator)
        /\ Le(validator.min, validator.max) /\ arg # NaN) =>
        /\ Validate(validator, arg) = (Ge(arg, validator.min) /\ Le(arg, validator.max))
        /\ EqNum(Clamp(validator, out), out)
        /\ Validate(validator, out)

\* C4 witness: an out-of-range number clamped into an inclusive range.
C4_Witness ==
    /\ op = "clamp" /\ IsBetween(validator) /\ Inclusive(validator)
    /\ Le(validator.min, validator.max) /\ arg # NaN
    /\ ~Validate(validator, arg) /\ out # arg

\* C5: for integer T, every value v that fails greaterThan(b) (every
\* v <= b) is clamped to b + 1, every v that fails lessThan(b) (every
\* v >= b) is clamped to b - 1, and a value that passes is returned
\* unchanged.
C5_StrictClampToNearest ==
    (op = "clamp" /\ arg # NaN) =>
        /\ validator.kind = "NumberGreaterThan" =>
               out = (IF arg <= validator.min THEN validator.min + 1 ELSE arg)
        /\ validator.kind = "NumberLessThan" =>
               out = (IF arg >= validator.max THEN validator.max - 1 ELSE arg)

SomeIntegerValid(vd) == \E n \in IntVals : Validate(vd, n)
LowerViolated(vd, v) == ~(IF vd.includeMin THEN Ge(v, vd.min) ELSE Gt(v, vd.min))
UpperViolated(vd, v) == ~(IF vd.includeMax THEN Le(v, vd.max) ELSE Lt(v, vd.max))

\* C6: for integer T and between with any combination of the include
\* flags, clamp(v) is min (min + 1 if min is exclusive) for every v that
\* violates the lower bound check, max (max - 1 if max is exclusive) for
\* every v that violates the upper bound check, v exactly when validate(v)
\* is true, and so validate(clamp(v)) is true whenever some integer is valid.
C6_FlaggedClampToNearest ==
    (op = "clamp" /\ IsBetween(validator) /\ arg # NaN
        /\ SomeIntegerValid(validator)) =>
        /\ LowerViolated(validator, arg) =>
               out = (IF validator.includeMin THEN validator.min ELSE validator.min + 1)
        /\ UpperViolated(validator, arg) =>
               out = (IF validator.includeMax THEN validator.max ELSE validator.max - 1)
        /\ (out = arg) = Validate(validator, arg)
        /\ Validate(validator, out)

(***************************************************************************)
(* Claims about the schema builder.                                        *)
(***************************************************************************)
\* the messages the last call appended
NewErrors == SubSeq(errors, Len(prevErrors) + 1, Len(errors))

\* the field path a message names: what stands between the opening
\* "ValidationError: '" and "' received "
PathOf(msg) ==
    LET at == {i \in 1..Len(msg) : msg[i] = "' received "}
    IN  IF at = {} \/ Len(msg) = 0 \/ msg[1] # "ValidationError: '" THEN <<"?">>
        ELSE SubSeq(msg, 2, (CHOOSE i \in at : \A j \in at : i <= j) - 1)

PathsOf(msgs) == [k \in 1..Len(msgs) |-> PathOf(msgs[k])]

Check(path, vd, value) == [path |-> path, validator |-> vd, value |-> value]

\* the leaf checks of a call in evaluation order: bindings in registration
\* order, the elements of a vector in index order, the subfields of a
\* nested builder in its own registration order under the label root.field
RECURSIVE LeafChecks(_, _, _)
LeafChecks(bs, inst, rootLabel) ==
    IF bs = <<>> THEN <<>>
    ELSE LET b == Head(bs)
             path == IF rootLabel = <<>> THEN b.name
                     ELSE rootLabel \o <<".">> \o b.name
             value == inst[b.field]
             first ==
                 CASE b.kind = "scalar" -> <<Check(path, b.validator, value)>>
                   [] b.kind = "vector" ->
                          [i \in 1..Len(value) |->
                              Check(path \o <<"[", ToString(i - 1), "]">>,
                                    b.validator, value[i])]
                   [] b.kind = "nested" -> LeafChecks(b.validator, value, path)
         IN  first \o LeafChecks(Tail(bs), inst, rootLabel)

Fails(check) == ~Validate(check.validator, check.value)
FailingChecks(checks) == SelectSeq(checks, Fails)
CheckPaths(checks) == [k \in 1..Len(checks) |-> checks[k].path]

AllChecks == LeafChecks(bindings, instance, argName)
CollectAll == op = "builderValidate" /\ ~stopOnError
StopAtFirst == op = "builderValidate" /\ stopOnError

\* C1: collect-all mode evaluates every binding whatever failed before and
\* appends exactly one message per failing leaf check, in registration order
\* of the bindings and index order inside a vector; the k-th new message
\* names the k-th failing check.
C1_CollectAllOneMessagePerFailure ==
    CollectAll =>
        /\ evaluated = CheckPaths(AllChecks)
        /\ IsPrefixOf(prevErrors, errors)
        /\ Len(errors) = Len(prevErrors) + Len(FailingChecks(AllChecks))
        /\ PathsOf(NewErrors) = CheckPaths(FailingChecks(AllChecks))

\* C1 witness: three scalar bindings that all fail, the first two on
\* different fields, leave three new messages.
C1_Witness ==
    /\ CollectAll
    /\ Len(bindings) = 3
    /\ \A i \in 1..3 : bindings[i].kind = "scalar"
    /\ bindings[1].name # bindings[2].name
    /\ Len(FailingChecks(AllChecks)) = 3
    /\ Len(NewErrors) = 3

FirstFailing(checks) ==
    CHOOSE k \in 1..Len(checks) :
        Fails(checks[k]) /\ \A j \in 1..(k - 1) : ~Fails(checks[j])

\* C2: stop-on-error mode with at least one failing leaf check appends
\* exactly one message, for the first failing check in evaluation order,
\* evaluates no binding, element or subfield after it, and returns false.
C2_StopOnErrorFirstFailureOnly ==
    (StopAtFirst /\ FailingChecks(AllChecks) # <<>>) =>
        /\ IsPrefixOf(prevErrors, errors)
        /\ Len(errors) = Len(prevErrors) + 1
        /\ PathsOf(NewErrors) = <<AllChecks[FirstFailing(AllChecks)].path>>
        /\ evaluated = SubSeq(CheckPaths(AllChecks), 1, FirstFailing(AllChecks))
        /\ ret = FALSE

\* C2 witness: the first failure is inside a nested or vector binding that
\* is not the last binding, and later checks would have failed too.
C2_Witness ==
    /\ StopAtFirst
    /\ Len(FailingChecks(AllChecks)) >= 2
    /\ Len(bindings) >= 2
    /\ bindings[1].kind \in {"nested", "vector"}
    /\ Len(LeafChecks(<<bindings[1]>>, instance, argName)) >= 2
    /\ FirstFailing(AllChecks) = 1
    /\ Len(evaluated) = 1 /\ Len(NewErrors) = 1 /\ ~ret

\* the messages one binding contributes when validated on its own
OwnErrors(b) ==
    ValidatorBuilder_validate(<<b>>, instance, argName, <<>>, FALSE).errors

RECURSIVE Concat(_)
Concat(seqs) == IF seqs = <<>> THEN <<>> ELSE Head(seqs) \o Concat(Tail(seqs))

\* the paths root.field[i] of the failing elements, in increasing index order
FailingElementPaths(b) ==
    LET root == IF argName = <<>> THEN b.name ELSE argName \o <<".">> \o b.name
        elems == instance[b.field]
        each == [i \in 1..Len(elems) |->
                    IF Validate(b.validator, elems[i]) THEN <<>>
                    ELSE <<root \o <<"[", ToString(i - 1), "]">>>>]
    IN  Concat(each)

ElementPaths(b) ==
    LET root == IF argName = <<>> THEN b.name ELSE argName \o <<".">> \o b.name
    IN  [i \in 1..Len(instance[b.field]) |-> root \o <<"[", ToString(i - 1), "]">>]

\* C7: a vector binding applies the element validator to every element in
\* index order and, in collect-all mode, contributes exactly one message per
\* failing element, path-suffixed with the element's 0-based index, in
\* increasing index order, none for a passing element and none for an empty
\* sequence.
C7_VectorOneMessagePerFailingElement ==
    CollectAll =>
        /\ PathsOf(NewErrors) =
               Concat([i \in 1..Len(bindings) |->
                   IF bindings[i].kind = "vector"
                   THEN FailingElementPaths(bindings[i])
                   ELSE PathsOf(OwnErrors(bindings[i]))])
        /\ \A i \in 1..Len(bindings) :
               bindings[i].kind = "vector" =>
                   \E k \in 0..Len(evaluated) :
                       SubSeq(evaluated, k + 1, k + Len(instance[bindings[i].field]))
                           = ElementPaths(bindings[i])

\* C7 witness: a vector whose element 0 passes and element 1 fails leaves
\* one message, for [1].
C7_Witness ==
    /\ CollectAll
    /\ Len(bindings) = 1 /\ bindings[1].kind = "vector"
    /\ Len(instance.v) = 2
    /\ Validate(bindings[1].validator, instance.v[1])
    /\ ~Validate(bindings[1].validator, instance.v[2])
    /\ argName = <<"r">>
    /\ PathsOf(NewErrors) = << <<"r", ".", "v", "[", "1", "]">> >>

\* the label the child of a nested binding is validated under: r.f
ChildLabel(b) == IF argName = <<>> THEN b.name ELSE argName \o <<".">> \o b.name

\* the messages of the child builder validated on its own under r.f
ChildErrors(b) ==
    ValidatorBuilder_validate(b.validator, instance[b.field], ChildLabel(b),
                              <<>>, FALSE).errors

\* C8: a builder registered as the validator of field f is validated with
\* root label r.f: its messages are those of the child validated on its own
\* under r.f, so each is path-prefixed r.f.s, they stand in the parent's
\* list at the position of binding f, and in collect-all mode every failing
\* subfield of every nested object contributes one message.
C8_NestedMessagesUnderChildLabel ==
    CollectAll =>
        /\ NewErrors =
               Concat([i \in 1..Len(bindings) |->
                   IF bindings[i].kind = "nested"
                   THEN ChildErrors(bindings[i])
                   ELSE OwnErrors(bindings[i])])
        /\ \A i \in 1..Len(bindings) :
               bindings[i].kind = "nested" =>
                   LET msgs == ChildErrors(bindings[i])
                       subs == LeafChecks(bindings[i].validator,
                                          instance[bindings[i].field], <<>>)
                   IN  /\ Len(msgs) = Len(FailingChecks(subs))
                       /\ \A k \in 1..Len(msgs) :
                              PathOf(msgs[k]) =
                                  ChildLabel(bindings[i]) \o <<".">>
                                      \o FailingChecks(subs)[k].path

\* C8 witness: a nested binding between two scalar bindings, every check
\* failing: the child's two messages, the second two levels deep, stand
\* between the messages of the scalars.
C8_Witness ==
    /\ CollectAll
    /\ Len(bindings) = 3
    /\ bindings[1].kind = "scalar" /\ bindings[2].kind = "nested"
    /\ bindings[3].kind = "scalar"
    /\ argName = <<"r">>
    /\ Len(NewErrors) = 4
    /\ PathOf(NewErrors[2]) = <<"r", ".", "c", ".", "p">>
    /\ PathOf(NewErrors[3]) = <<"r", ".", "c", ".", "d", ".", "g">>

\* the paths a call may name: f, f[i] and f.s (recursively), after the
\* root label and a dot when the root label is not empty
NamedPaths(checks) == {checks[k].path : k \in 1..Len(checks)}

\* every path is one the call may name, starts with the root label and a dot
\* (or, with an empty root label, with the field name itself) and never with
\* a dot
Composed(paths, named) ==
    \A k \in 1..Len(paths) :
        /\ paths[k] \in named
        /\ \E i \in 1..Len(bindings) :
               IF argName = <<>>
               THEN IsPrefixOf(bindings[i].name, paths[k])
               ELSE IsPrefixOf(argName \o <<".">> \o bindings[i].name, paths[k])
        /\ Head(paths[k]) # "."

\* C9: every message emitted for a binding named f carries the path
\* rootLabel + "." + f when rootLabel is not empty and exactly f, with no
\* leading dot, when it is empty; recursively for nested builders and before
\* the [index] suffix of vector elements.
C9_PathComposition ==
    op = "builderValidate" =>
        Composed(PathsOf(NewErrors), NamedPaths(AllChecks))

\* C9 witness: with an empty root label a message two levels deep carries
\* the path c.d.g, with no leading dot.
C9_Witness ==
    /\ op = "builderValidate"
    /\ argName = <<>>
    /\ \E k \in 1..Len(NewErrors) :
           PathOf(NewErrors[k]) = <<"c", ".", "d", ".", "g">>

NoneFails(checks) == \A k \in 1..Len(checks) : ~Fails(checks[k])
AllPass == NoneFails(AllChecks)

\* C10: with an error list and stopOnError=false, validate returns true iff
\* the error list gained no entry, that is iff every leaf check passes; the
\* overloads without an error list return the same boolean as the
\* error-collecting call on the same instance.
C10_ReturnValue ==
    /\ CollectAll =>
           /\ ret = (Len(errors) = Len(prevErrors))
           /\ ret = AllPass
    /\ op = "builderValidateNoErrors" =>
           /\ ret = ValidatorBuilder_validate(bindings, instance, argName,
                                              <<>>, FALSE).ret
           /\ ret = AllPass

\* C10 witness: the overload without an error list returns false for an
\* instance whose first binding passes and a later one fails.
C10_Witness ==
    /\ op = "builderValidateNoErrors"
    /\ ~ret
    /\ Len(bindings) >= 2
    /\ OwnErrors(bindings[1]) = <<>>

(***************************************************************************)
(* Claims about the regex-based validators.                                *)
(***************************************************************************)
\* C11: the format validators and the generic regex validator decide
\* through the function the static stringRegexMatchFn holds: once the
\* embedder has replaced it, validate(value) returns what the replacement
\* returns for the validator's pattern and the value.
C11_ValidateGoesThroughStrategy ==
    (op = "validate" /\ HasRegex(validator)) =>
        ret = stringRegexMatchFn_call(validator.regex, arg, <<>>).ret

\* C12: with the default strategy, match(value, matches) returns true
\* exactly when the whole value matches the pattern; on success it appends
\* one capture per capturing group, in the order of the groups and without
\* the whole match, and on failure it appends nothing; validate returns the
\* same boolean and leaves the caller's captures alone.
Digits == {"0", "1", "2", "3", "4", "5", "6", "7", "8", "9"}
LowerCase == {"a", "b", "c", "d", "e", "f", "g", "h", "i", "j", "k", "l", "m",
              "n", "o", "p", "q", "r", "s", "t", "u", "v", "w", "x", "y", "z"}
AllIn(s, set) == \A i \in 1..Len(s) : s[i] \in set
\* the capturing groups of a pattern: the parentheses that open a group and
\* are not followed by ?
GroupCount(regex) ==
    Cardinality({i \in 1..Len(regex) :
                    /\ regex[i] = "("
                    /\ (i = Len(regex) \/ regex[i + 1] # "?")})
\* what each pattern of RegexValidators says about a value, read off the
\* pattern by hand: whether the value matches and the text of each group
ExpectedMatch(regex, value) ==
    CASE regex = Chars("^[0-9]+$") ->
             [ret |-> Len(value) > 0 /\ AllIn(value, Digits), sub |-> <<>>]
      [] regex = Chars("^([a-z]+)@([a-z]+)\\.com$") ->
             LET ats == {k \in 2..(Len(value) - 5) :
                            /\ value[k] = "@"
                            /\ AllIn(SubSeq(value, 1, k - 1), LowerCase)
                            /\ AllIn(SubSeq(value, k + 1, Len(value) - 4), LowerCase)
                            /\ SubSeq(value, Len(value) - 3, Len(value)) = Chars(".com")}
                 Groups(k) == <<SubSeq(value, 1, k - 1),
                                SubSeq(value, k + 1, Len(value) - 4)>>
             IN  IF ats = {} THEN [ret |-> FALSE, sub |-> <<>>]
                 ELSE [ret |-> TRUE, sub |-> Groups(CHOOSE k \in ats : TRUE)]
      [] regex = Chars("^[0-9]{5}(-[0-9]{4})?$") ->
             IF Len(value) = 5 /\ AllIn(value, Digits)
             THEN [ret |-> TRUE, sub |-> << <<>> >>]
             ELSE IF /\ Len(value) = 10
                     /\ AllIn(SubSeq(value, 1, 5), Digits)
                     /\ value[6] = "-"
                     /\ AllIn(SubSeq(value, 7, 10), Digits)
                  THEN [ret |-> TRUE, sub |-> <<SubSeq(value, 6, 10)>>]
                  ELSE [ret |-> FALSE, sub |-> <<>>]
      [] regex = Chars("a|ab") ->
             [ret |-> value \in {Chars("a"), Chars("ab")}, sub |-> <<>>]
C12_MatchDeliversCaptures ==
    /\ (op = "match" /\ matchFn = "default") =>
           /\ ret = ExpectedMatch(validator.regex, arg).ret
           /\ ret => /\ callerMatches = prevMatches \o ExpectedMatch(validator.regex, arg).sub
                      /\ Len(callerMatches) = Len(prevMatches) + GroupCount(validator.regex)
           /\ ~ret => callerMatches = prevMatches
           /\ ret = StringRegexValidator_validate(validator, arg)
    /\ (op = "validate" /\ validator.kind = "StringRegex" /\ matchFn = "default") =>
           /\ ret = ExpectedMatch(validator.regex, arg).ret
           /\ callerMatches = prevMatches
C12_Witness ==
    /\ op = "match" /\ matchFn = "default" /\ ret
    /\ arg = Chars("test@example.com")
    /\ Len(prevMatches) > 0
    /\ callerMatches = prevMatches \o <<Chars("test"), Chars("example")>>

\* C13: between(min, max, includeMin, includeMax).validate(value) is true
\* exactly when value is above min, or equal to it with includeMin set, and
\* below max, or equal to it with includeMax set, for the four combinations
\* of the flags; between(min, max) has both flags set.
C13_BetweenHonoursFlags ==
    (op = "validate" /\ IsBetween(validator)) =>
        /\ ret = /\ arg # NaN
                 /\ arg > validator.min \/ (validator.includeMin /\ arg = validator.min)
                 /\ arg < validator.max \/ (validator.includeMax /\ arg = validator.max)
        /\ \A mn \in NumBounds, mx \in NumBounds :
               validator = NumberValidator_between(mn, mx) =>
                   ret = (arg # NaN /\ mn <= arg /\ arg <= mx)
C13_Witness ==
    /\ op = "validate" /\ IsBetween(validator)
    /\ ~validator.includeMin /\ validator.includeMax
    /\ validator.min < validator.max
    /\ arg = validator.min
    /\ ~ret

\* C14: url(protocol, secure) accepts a value only when the text before
\* "://" is ws or http, enabled by the protocol flags, followed by s when
\* only Secure is set, by no s when only NonSecure is set, and by either
\* when both are set; an empty scheme and a disabled protocol are rejected.
SchemeOf(value) ==
    LET colons == {k \in 1..Len(value) : value[k] = ":"}
    IN  IF colons = {} THEN value
        ELSE SubSeq(value, 1, (CHOOSE k \in colons : \A j \in colons : k <= j) - 1)
AllowedSchemes(protocol, secure) ==
    {base \o suffix :
        base \in {Chars("ws") : x \in protocol \cap {"Ws"}}
                  \cup {Chars("http") : x \in protocol \cap {"Http"}},
        suffix \in {<<>> : x \in secure \cap {"NonSecure"}}
                    \cup {Chars("s") : x \in secure \cap {"Secure"}}}
C14_UrlSchemeFollowsFlags ==
    (op = "validate" /\ validator.kind = "StringUrl" /\ ret) =>
        SchemeOf(arg) \in AllowedSchemes(validator.protocol, validator.secure)

\* C15: ip(v4, withPrefixLength) accepts four dot-separated decimal octets,
\* each in 0..255; with the flag set the address must be followed by /N with
\* 0 <= N <= 32 (0 <= N <= 128 for v6), and the bare address is rejected;
\* with the flag not set a value with a /N suffix is rejected.
DigitValue(c) == CHOOSE n \in 0..9 : ToString(n) = c
\* the number a text of one to three digits denotes, written without
\* leading zeros; -1 for any other text
DecimalOf(s) ==
    IF Len(s) \notin 1..3 \/ ~AllIn(s, Digits) \/ (Len(s) > 1 /\ s[1] = "0") THEN -1
    ELSE CASE Len(s) = 1 -> DigitValue(s[1])
           [] Len(s) = 2 -> 10 * DigitValue(s[1]) + DigitValue(s[2])
           [] Len(s) = 3 -> 100 * DigitValue(s[1]) + 10 * DigitValue(s[2])
                            + DigitValue(s[3])
\* the pieces of s between the occurrences of sep
SplitAt(s, sep) ==
    LET cuts == {k \in 1..Len(s) : s[k] = sep}
        Before(k) == IF \E j \in cuts : j < k
                     THEN CHOOSE j \in cuts : j < k /\ \A i \in cuts : i < k => i <= j
                     ELSE 0
    IN  {SubSeq(s, Before(k) + 1, k - 1) : k \in cuts \cup {Len(s) + 1}}
CountOf(s, sep) == Cardinality({k \in 1..Len(s) : s[k] = sep})
IsDottedQuad(s) ==
    /\ CountOf(s, ".") = 3
    /\ \A piece \in SplitAt(s, ".") : DecimalOf(piece) \in 0..255
\* the addresses of version 6 among the values passed
KnownIpv6 == {Chars("::1"), Chars("1:2:3:4:5:6:7:8")}
IsAddress(version, s) ==
    IF version = "Ipv4" THEN IsDottedQuad(s) ELSE s \in KnownIpv6
MaxPrefix(version) == IF version = "Ipv4" THEN 32 ELSE 128
FirstSlash(s) ==
    IF CountOf(s, "/") = 0 THEN Len(s) + 1
    ELSE CHOOSE k \in 1..Len(s) : s[k] = "/" /\ \A j \in 1..(k - 1) : s[j] # "/"
AddressPart(s) == SubSeq(s, 1, FirstSlash(s) - 1)
PrefixPart(s) == SubSeq(s, FirstSlash(s) + 1, Len(s))
HasPrefixLength(vd, s) ==
    /\ CountOf(s, "/") > 0
    /\ DecimalOf(PrefixPart(s)) \in 0..MaxPrefix(vd.version)
C15_IpPrefixRequiredWithFlag ==
    (op = "validate" /\ validator.kind = "StringIp") =>
        ret = /\ IsAddress(validator.version, AddressPart(arg))
              /\ IF validator.withPrefixLength
                 THEN HasPrefixLength(validator, arg)
                 ELSE CountOf(arg, "/") = 0
C15_Witness ==
    /\ op = "validate" /\ validator.kind = "StringIp"
    /\ validator.withPrefixLength
    /\ IsAddress(validator.version, arg)
    /\ ~ret
\* C15 as stated: with the flag set the /N suffix is optional, so the bare
\* address is accepted too.
C15_IpPrefixOptionalWithFlag ==
    (op = "validate" /\ validator.kind = "StringIp") =>
        ret = /\ IsAddress(validator.version, AddressPart(arg))
              /\ IF validator.withPrefixLength
                 THEN CountOf(arg, "/") = 0 \/ HasPrefixLength(validator, arg)
                 ELSE CountOf(arg, "/") = 0

\* C16: length.max(n).crop(s) is the first n text units of s: it is at most
\* n long and passes validate, it is s itself when s is at most n long, it
\* is a prefix of s, and cropping it again changes nothing.
C16_CropKeepsFirstUnits ==
    op = "crop" =>
        /\ Len(out) = (IF Len(arg) < validator.max THEN Len(arg) ELSE validator.max)
        /\ \A i \in 1..Len(out) : out[i] = arg[i]
        /\ Len(out) <= validator.max
        /\ StringLengthMaxValidator_validate(validator, out)
        /\ Len(arg) <= validator.max => out = arg
        /\ IsPrefixOf(out, arg)
        /\ StringLengthMaxValidator_crop(validator, out) = out
C16_Witness ==
    /\ op = "crop"
    /\ validator.max > 0
    /\ Len(arg) > validator.max
    /\ out = SubSeq(arg, 1, validator.max)
    /\ out # arg

\* C17: for every value of T and every divisor other than 0, of either
\* sign, multipleOf(divisor).validate(value) returns, and returns true
\* exactly when value is an integer multiple of divisor.
C17_MultipleOfIffMultiple ==
    (op \in {"validate", "validateTrapped"} /\ validator.kind = "NumberMultipleOf") =>
        /\ op = "validate"
        /\ ret = (\E k \in TMin..(-TMin) : arg = k * validator.divisor)
        /\ arg = 0 => ret

\* C18: literals(set).validate(value), for numbers and for strings, is true
\* exactly when value equals an element of the set, letter case included;
\* a set with the same elements in another order or with repetitions gives
\* the same result, and the empty set rejects every value.
ElementsOf(literals) == {literals[i] : i \in 1..Len(literals)}
C18_LiteralsIsMembership ==
    /\ (op = "validate" /\ validator.kind = "NumberLiteral") =>
           /\ ret = (arg # NaN /\ arg \in ElementsOf(validator.literals))
           /\ validator.literals = <<>> => ~ret
           /\ \A other \in SeqsUpTo(NumBounds, 3) :
                  ElementsOf(other) = ElementsOf(validator.literals) =>
                      NumberLiteralValidator_validate(NumberLiteralValidator(other), arg) = ret
    /\ (op = "validate" /\ validator.kind = "StringLiteral") =>
           /\ ret = (arg \in ElementsOf(validator.literals))
           /\ validator.literals = <<>> => ~ret
           /\ (arg = <<"A">> /\ ElementsOf(validator.literals) \subseteq StrVals) => ~ret
           /\ \A other \in SeqsUpTo(StrVals, 3) :
                  ElementsOf(other) = ElementsOf(validator.literals) =>
                      StringLiteralValidator_validate(StringLiteralValidator(other), arg) = ret
C18_Witness ==
    /\ op = "validate" /\ validator.kind = "NumberLiteral"
    /\ Len(validator.literals) = 2
    /\ validator.literals[1] # validator.literals[2]
    /\ arg = validator.literals[2]
    /\ ret

\* C19: startsWith(p).validate(value) is true exactly when p is a prefix of
\* value, endsWith(p) when p is a suffix, includes(p) when p occurs in value
\* as a run of consecutive units; an empty p is found in every value, the
\* empty one included, and a p longer than value is never found.
OccursAt(p, value, k) ==
    /\ k + Len(p) - 1 <= Len(value)
    /\ \A i \in 1..Len(p) : value[k + i - 1] = p[i]
C19_SubstringChecks ==
    /\ (op = "validate" /\ validator.kind = "StringStartsWith") =>
           /\ ret = OccursAt(validator.prefix, arg, 1)
           /\ validator.prefix = <<>> => ret
           /\ Len(validator.prefix) > Len(arg) => ~ret
    /\ (op = "validate" /\ validator.kind = "StringEndsWith") =>
           /\ ret = (/\ Len(validator.suffix) <= Len(arg)
                     /\ OccursAt(validator.suffix, arg,
                                 Len(arg) - Len(validator.suffix) + 1))
           /\ validator.suffix = <<>> => ret
           /\ Len(validator.suffix) > Len(arg) => ~ret
    /\ (op = "validate" /\ validator.kind = "StringIncludes") =>
           /\ ret = (\E k \in 1..(Len(arg) + 1) : OccursAt(validator.substring, arg, k))
           /\ validator.substring = <<>> => ret
           /\ Len(validator.substring) > Len(arg) => ~ret
C19_Witness ==
    /\ op = "validate" /\ validator.kind = "StringIncludes"
    /\ Len(validator.substring) = 2
    /\ Len(arg) = 3
    /\ ~OccursAt(validator.substring, arg, 1)
    /\ OccursAt(validator.substring, arg, 2)
    /\ ret

\* C20 (as stated): for every value v, greaterOrEqual(b).clamp(v) is b when
\* v < b and v otherwise, lessOrEqual(b).clamp(v) is b when v > b and v
\* otherwise; validate(clamp(v)) holds, clamp(clamp(v)) == clamp(v), and
\* clamp(v) == v exactly when validate(v).
IsOneSidedInclusive(vd) == vd.kind \in {"NumberGreaterOrEqual", "NumberLessOrEqual"}
BoundOf(vd) == IF vd.kind = "NumberGreaterOrEqual" THEN vd.min ELSE vd.max
Beyond(vd, v) ==
    IF vd.kind = "NumberGreaterOrEqual" THEN Lt(v, vd.min) ELSE Gt(v, vd.max)
C20_OneSidedClampAlwaysValid ==
    (op = "clamp" /\ IsOneSidedInclusive(validator)) =>
        /\ out = (IF Beyond(validator, arg) THEN BoundOf(validator) ELSE arg)
        /\ Validate(validator, out)
        /\ EqNum(Clamp(validator, out), out)
        /\ EqNum(out, arg) = Validate(validator, arg)

\* C20 (amended): the same, for every value v other than a floating-point
\* NaN.
C20_OneSidedClampValidUnlessNaN ==
    (op = "clamp" /\ IsOneSidedInclusive(validator) /\ arg # NaN) =>
        /\ out = (IF Beyond(validator, arg) THEN BoundOf(validator) ELSE arg)
        /\ Validate(validator, out)
        /\ EqNum(Clamp(validator, out), out)
        /\ EqNum(out, arg) = Validate(validator, arg)

\* C20 witness: a number below the bound of greaterOrEqual raised to it.
C20_Witness ==
    /\ op = "clamp" /\ validator.kind = "NumberGreaterOrEqual"
    /\ arg # NaN /\ arg < validator.min
    /\ out = validator.min

(* Further claims about the formats, the messages and the frame. *)
\* C21: mac(sep).validate(value) is true exactly when value is six groups
\* of two hexadecimal digits with the text sep, as it is written, between
\* consecutive groups; groups joined by another character are rejected.
HexDigits == Digits \cup {"a", "b", "c", "d", "e", "f", "A", "B", "C", "D", "E", "F"}
IsMacJoinedBy(sep, value) ==
    /\ Len(value) = 12 + 5 * Len(sep)
    /\ \A g \in 0..5 :
           /\ value[g * (2 + Len(sep)) + 1] \in HexDigits
           /\ value[g * (2 + Len(sep)) + 2] \in HexDigits
    /\ \A g \in 0..4 :
           SubSeq(value, g * (2 + Len(sep)) + 3, (g + 1) * (2 + Len(sep))) = sep
C21_MacJoinedBySeparator ==
    (op = "validate" /\ validator.kind = "StringMac") =>
        ret = IsMacJoinedBy(validator.separator, arg)

\* C22: every message a validator appends reads "ValidationError: '", the
\* varName as passed, "' received ", the value (a number as it prints, a
\* string inside double quotes), ", expected ", a description of the
\* constraint and one final "."; the description is the same for every
\* value the validator rejects.
RECURSIVE Flat(_, _)
Flat(units, i) ==
    IF i > Len(units) THEN <<>> ELSE Chars(units[i]) \o Flat(units, i + 1)
Rendered(vd, value) ==
    IF IsNumberValidator(vd) THEN Chars(ShowNum(value))
    ELSE (<<"\"">> \o value) \o <<"\"">>
MessageStart(vd, value, varName) ==
    Chars("ValidationError: '") \o Flat(varName, 1) \o Chars("' received ")
    \o Rendered(vd, value) \o Chars(", expected ")
DescriptionOf(text) ==
    SubstrFrom(text, Find(text, Chars(", expected ")) + Len(", expected "))
HasShape(text, start) ==
    /\ IsPrefixOf(start, text)
    /\ Len(text) > Len(start) + 1
    /\ text[Len(text)] = "."
    /\ text[Len(text) - 1] # "."
    /\ DescriptionOf(text) = SubstrFrom(text, Len(start))
ReportedBefore(i) ==
    IsPrefixOf(MessageStart(validator, arg, argName), Flat(errors[i], 1))
SameAsEarlierCalls ==
    /\ op \in {"validate", "validateErr"} => ret = LeafValidate(validator, arg)
    /\ (op = "validateErr" /\ ret) => \A i \in 1..Len(errors) : ~ReportedBefore(i)
    /\ (op = "validateErr" /\ ~ret) =>
           \A i \in 1..Len(errors) : ReportedBefore(i) => errors[i] = errors[Len(errors)]
AsAlone(c, alone) ==
    IF RemainderUndefined(validator, callers[c].value)
    THEN callers[c].ret /\ callers[c].errors = <<>>
    ELSE callers[c].ret = alone.ret /\ callers[c].errors = alone.errors

\* every message in the list of thread c is about the field thread c named
OnlyOwnMessages(c) ==
    \A i \in 1..Len(callers[c].errors) :
        IsPrefixOf(Chars("ValidationError: '") \o (Chars(c) \o Chars("' received ")),
                   Flat(callers[c].errors[i], 1))

Again == ValidatorBuilder_validate(bindings, instance, argName, prevErrors, stopOnError)

SameResults(r) == ret = r.ret /\ errors = r.errors /\ evaluated = r.evaluated

Dist(a, b) == IF a = NaN \/ b = NaN THEN NaN ELSE IF a < b THEN b - a ELSE a - b

\* the clamp of v, monotone against every other value, within the bounds and
\* nearest to v among the values within the bounds
MonotoneBoundedNearest(vd, v, clamped) ==
    /\ \A v2 \in ValuesOf(vd) :
           /\ Le(v, v2) => Le(clamped, Clamp(vd, v2))
           /\ Le(v2, v) => Le(Clamp(vd, v2), clamped)
    /\ Le(vd.min, clamped) /\ Le(clamped, vd.max)
    /\ \A w \in ValuesOf(vd) :
           (Le(vd.min, w) /\ Le(w, vd.max)) => Le(Dist(clamped, v), Dist(w, v))

\* C26 (as stated): for NumberBetweenValidator with inclusive bounds and
\* min <= max, clamp is monotone non-decreasing, min <= clamp(v) <= max for
\* every value v, and clamp(v) is the in-range value closest to v.
C26_ClampMonotoneBoundedNearest ==
    (op = "clamp" /\ IsBetween(validator) /\ Inclusive(validator)
        /\ Le(validator.min, validator.max)) =>
        MonotoneBoundedNearest(validator, arg, out)

\* C26 (amended): the same for every value v that is ordered against the
\* bounds, that is every v other than a floating-point NaN.
C26_ClampMonotoneBoundedNearestUnlessNaN ==
    (op = "clamp" /\ IsBetween(validator) /\ Inclusive(validator)
        /\ Le(validator.min, validator.max) /\ arg # NaN) =>
        MonotoneBoundedNearest(validator, arg, out)

\* C26 witness: a value above a range of more than one value, clamped to max.
C26_Witness ==
    /\ op = "clamp" /\ IsBetween(validator) /\ Inclusive(validator)
    /\ Lt(validator.min, validator.max)
    /\ Gt(arg, Plus(validator.max, 1))
    /\ out = validator.max

\* the entries a match call that returned r adds to the list
Appended(r) == IF r THEN GroupCount(validator.regex) ELSE 0

\* C27: match(value, matches) with the default strategy never clears or
\* overwrites the caller's list: a failed match leaves it as it was, a
\* successful one appends one entry per capture group after the entries
\* already there, so that over a sequence of calls on a reused list each call
\* adds its group count, or nothing, to the length the call before left.
C27_MatchOnlyAppends ==
    /\ []((op = "match" /\ matchFn = "default") =>
             /\ IsPrefixOf(prevMatches, callerMatches)
             /\ Len(callerMatches) = Len(prevMatches) + Appended(ret)
             /\ ~ret => callerMatches = prevMatches)
    /\ [][(op' = "match" /\ matchFn' = "default" /\ prevMatches' = callerMatches) =>
             /\ IsPrefixOf(callerMatches, callerMatches')
             /\ Len(callerMatches') = Len(callerMatches) + Appended(ret')]_vars

\* C27 witness: a third successful call on a reused list, its one capture
\* after the two of the calls before it.
C27_Witness ==
    /\ op = "match" /\ matchFn = "default" /\ ret
    /\ GroupCount(validator.regex) = 1
    /\ Len(prevMatches) = 2
    /\ Len(callerMatches) = 3
    /\ SubSeq(callerMatches, 1, 2) = prevMatches

====
